---- MODULE Spec2Model ----
(***************************************************************************)
(* Adaptive policy and scheduling core of MASTERYAI:                       *)
(*   - the knowledge graph store and its transfer-aware path scheduler     *)
(*     (backend/services/knowledge_graph.py),                              *)
(*   - the adaptive SM-2 review scheduler                                  *)
(*     (backend/agents/review_scheduler.py),                               *)
(*   - the strategy bandit and the RL engine's serialization               *)
(*     (backend/agents/rl_engine.py).                                      *)
(* Real numbers are fixed-point integers; every scale is named where it is *)
(* used.  Each subsystem has its own specification over its own variables; *)
(* the variables of the other subsystems are held at their initial value.  *)
(***************************************************************************)
EXTENDS Integers, Sequences, FiniteSets, TLC

VARIABLES
    concepts,            \* KnowledgeGraphService.concepts: id -> Concept
    prerequisite_cache,  \* KnowledgeGraphService._prerequisite_cache
    kg_call,             \* the last graph operation, its arguments and result
    review_queue,        \* LearnerState.review_queue: the serialized ReviewItems
    now,                 \* datetime.utcnow(), in ticks (DayTicks to a day)
    reviews_done,        \* number of schedule_review calls so far
    advances_done,       \* number of clock advances so far
    rs_call,             \* the last review scheduler operation and its result
    engine,              \* the RLEngine in memory
    rl_policy,           \* LearnerState.rl_policy: the serialized engine
    engine_steps,        \* number of engine updates so far
    rl_call,             \* the last engine operation
    learners,            \* LearnerStore: learner_id -> the persisted record
    requests,            \* the requests in flight, each with its own LearnerState
    rl_rng,              \* _rl_rng: the number of 32-bit words it has yielded
    alone                \* learner 1 and the generator had learner 1 acted alone

kg_vars == <<concepts, prerequisite_cache, kg_call>>
rs_vars == <<review_queue, now, reviews_done, advances_done, rs_call>>
en_vars == <<engine, rl_policy, engine_steps, rl_call>>
ls_vars == <<learners, requests, rl_rng, alone>>
vars == <<kg_vars, rs_vars, en_vars, ls_vars>>

\* What the operations of the graph store, of the review scheduler, of the
\* engine and of the request handlers leave alone.
kg_frame == <<rs_vars, en_vars, ls_vars>>
rs_frame == <<kg_vars, en_vars, ls_vars>>
en_frame == <<kg_vars, rs_vars, ls_vars>>
ls_frame == <<kg_vars, rs_vars, en_vars>>

(***************************************************************************)
(* Generic helpers                                                         *)
(***************************************************************************)
Max(a, b) == IF a >= b THEN a ELSE b
Min(a, b) == IF a <= b THEN a ELSE b

Range(s) == {s[i] : i \in DOMAIN s}

\* Python's round(n/d, 0) for n >= 0, d > 0 on the exact quotient: to the
\* nearest integer, a tie to the even one.
RoundDiv(n, d) ==
    LET q == n \div d
        r == n % d
    IN  IF 2 * r < d THEN q
        ELSE IF 2 * r > d THEN q + 1
        ELSE IF q % 2 = 0 THEN q ELSE q + 1

(***************************************************************************)
(* Knowledge graph store                                                   *)
(***************************************************************************)
\* Concept ids.  Ids are strings in the code and the heap of the path
\* scheduler compares them; the integers stand for ids ordered the same way
\* ("c1" < "c2" < "c3").
ConceptIds == {1, 2, 3}

MaxPrereqs == 2     \* longest prerequisites list of a concept
MaxEdges == 2       \* prerequisite entries plus transfer edges of the whole graph
MaxTargets == 2     \* size of the target set of a path query
MaxMastered == 1    \* size of the mastered set of a path query

\* Concept.base_hours default, in tenths of an hour.
BaseHours == 20
\* weights.get(cid, 2.0): the estimate of a step that has no weight, in tenths.
DefaultHours == 20
\* TransferEdge.strength of the edges of the model, in tenths.
TransferStrength == 5

SeqsUpTo(S, n) == UNION {[1..k -> S] : k \in 0..n}
SubsetsUpTo(S, n) == {T \in SUBSET S : Cardinality(T) <= n}

\* A Concept: its prerequisites list (duplicates and unknown ids are not
\* rejected by the model class) and the targets of its transfers_to edges.
ConceptValues ==
    [prerequisites : SeqsUpTo(ConceptIds, MaxPrereqs),
     transfers_to : SUBSET ConceptIds]

PrereqEntries(cs) ==
    LET RECURSIVE Sum(_)
        Sum(D) == IF D = {} THEN 0
                  ELSE LET c == CHOOSE x \in D : TRUE
                       IN  Len(cs[c].prerequisites) + Sum(D \ {c})
    IN  Sum(DOMAIN cs)

TransferEdges(cs) ==
    LET RECURSIVE Sum(_)
        Sum(D) == IF D = {} THEN 0
                  ELSE LET c == CHOOSE x \in D : TRUE
                       IN  Cardinality(cs[c].transfers_to) + Sum(D \ {c})
    IN  Sum(DOMAIN cs)

\* get_prerequisites: the list of the concept, [] for an unknown id.
get_prerequisites(cs, cid) ==
    IF cid \in DOMAIN cs THEN cs[cid].prerequisites ELSE <<>>

\* Python's None.
None == [none |-> TRUE]

\* get_concept (lines 51-52): the concept, None for an unknown id.
get_concept(cs, cid) == IF cid \in DOMAIN cs THEN cs[cid] ELSE None

\* get_transfer_edge(source, target) is not None.
get_transfer_edge(cs, source, target) ==
    source \in DOMAIN cs /\ target \in cs[source].transfers_to

\* The closure walk of get_all_prerequisites: a stack of ids still to visit
\* and the result set; an id already in the result is not expanded again.
RECURSIVE ClosureWalk(_, _, _)
ClosureWalk(cs, stack, result) ==
    IF stack = <<>> THEN result
    ELSE LET pid == stack[Len(stack)]
             rest == SubSeq(stack, 1, Len(stack) - 1)
         IN  IF pid \in result THEN ClosureWalk(cs, rest, result)
             ELSE ClosureWalk(cs, rest \o get_prerequisites(cs, pid),
                              result \cup {pid})

\* The walk that counts a visit at every pop of the stack, whether the id
\* is in the result or not.
RECURSIVE ClosureRevisits(_, _, _, _, _)
ClosureRevisits(cs, stack, result, visits, pops) ==
    IF stack = <<>> THEN [visits |-> visits, pops |-> pops]
    ELSE LET pid == stack[Len(stack)]
             rest == SubSeq(stack, 1, Len(stack) - 1)
         IN  IF pid \in result
             THEN ClosureRevisits(cs, rest, result, Append(visits, pid), pops + 1)
             ELSE ClosureRevisits(cs, rest \o get_prerequisites(cs, pid),
                                  result \cup {pid}, Append(visits, pid), pops + 1)

\* The same walk (lines 70-74) with what it did: visits lists the ids in
\* the order result.add took them, pops counts the iterations of the loop.
RECURSIVE ClosureTrace(_, _, _, _, _)
ClosureTrace(cs, stack, result, visits, pops) ==
    IF stack = <<>> THEN [visits |-> visits, pops |-> pops]
    ELSE LET pid == stack[Len(stack)]
             rest == SubSeq(stack, 1, Len(stack) - 1)
         IN  IF pid \in result
             THEN ClosureTrace(cs, rest, result, visits, pops + 1)
             ELSE ClosureTrace(cs, rest \o get_prerequisites(cs, pid),
                               result \cup {pid}, Append(visits, pid), pops + 1)

\* What the walk of get_all_prerequisites(cid) did: nothing for a memoized id.
WalkOf(cs, cache, cid) ==
    IF cid \in DOMAIN cache THEN [visits |-> <<>>, pops |-> 0]
    ELSE ClosureTrace(cs, get_prerequisites(cs, cid), {}, <<>>, 0)

\* get_all_prerequisites: the memoized value when there is one.
get_all_prerequisites(cs, cache, cid) ==
    IF cid \in DOMAIN cache THEN cache[cid]
    ELSE ClosureWalk(cs, get_prerequisites(cs, cid), {})

\* The cache after get_all_prerequisites(cid).
CacheAfter(cs, cache, cid) ==
    IF cid \in DOMAIN cache THEN cache
    ELSE [x \in DOMAIN cache \cup {cid} |->
            IF x = cid THEN ClosureWalk(cs, get_prerequisites(cs, cid), {})
            ELSE cache[x]]

\* The weight of a known concept in tenths of an hour (lines 139-147):
\* base * (1 - 0.4 * strongest transfer from a mastered concept) / max(vel, 0.1),
\* rounded to one decimal as the scheduler reports it.  vel is in tenths.
ConceptWeight(cs, cid, mastered, vel) ==
    LET bonus == IF \E mid \in mastered : get_transfer_edge(cs, mid, cid)
                 THEN TransferStrength ELSE 0
    IN  RoundDiv(BaseHours * (100 - 4 * bonus), 10 * Max(vel, 1))

\* round(weights.get(cid, 2.0), 1): concepts unknown to the store have no weight.
EstimatedHours(cs, cid, mastered, vel) ==
    IF cid \in DOMAIN cs THEN ConceptWeight(cs, cid, mastered, vel)
    ELSE DefaultHours

\* The in-degree pass left out: every concept starts in the heap.
InDegree_Skipped(cs, S, cid) == 0

\* in_degree of the scheduler (lines 152-156): one per entry of the
\* prerequisites list that names a concept of the set.
InDegree(cs, S, cid) ==
    LET pre == get_prerequisites(cs, cid)
    IN  Cardinality({i \in DOMAIN pre : pre[i] \in S})

\* transfer_out at the first pushes (lines 161-164): every concept of the set.
TransferOutInitial(cs, S, cid) ==
    Cardinality({other \in S : get_transfer_edge(cs, cid, other)})

\* transfer_out at the later pushes (lines 181-184): concepts not yet done.
TransferOutLater(cs, S, done, dep) ==
    Cardinality({other \in S : get_transfer_edge(cs, dep, other) /\ other \notin done})

\* heapq.heappop on tuples (-transfer_out, cid): the least key, then the least id.
HeapMin(queue) ==
    CHOOSE e \in queue :
        \A f \in queue : e[1] < f[1] \/ (e[1] = f[1] /\ e[2] <= f[2])

\* The scheduling loop (lines 169-185).  queue is the heap as a set of
\* <<-transfer_out, cid>>, result the list of scheduled ids.
RECURSIVE ToposortLoop(_, _, _, _, _, _)
ToposortLoop(cs, S, in_degree, queue, result, done) ==
    IF queue = {} THEN result
    ELSE LET e == HeapMin(queue)
             cid == e[2]
             done2 == done \cup {cid}
             deps == {dep \in S : cid \in Range(get_prerequisites(cs, dep))
                                   /\ dep \notin done2}
             in2 == [c \in S |-> IF c \in deps THEN in_degree[c] - 1
                                 ELSE in_degree[c]]
             pushed == {<<0 - TransferOutLater(cs, S, done2, dep), dep>> :
                           dep \in {d \in deps : in2[d] = 0}}
         IN  ToposortLoop(cs, S, in2, (queue \ {e}) \cup pushed,
                          Append(result, cid), done2)

\* _transfer_optimized_toposort: the ids of the steps, in order.
transfer_optimized_toposort(cs, S) ==
    LET in_degree == [c \in S |-> InDegree(cs, S, c)]
        queue == {<<0 - TransferOutInitial(cs, S, c), c>> :
                     c \in {x \in S : in_degree[x] = 0}}
    IN  ToposortLoop(cs, S, in_degree, queue, <<>>, {})

\* required of compute_learning_path (lines 127-130).
Required(cs, cache, targets) ==
    targets \cup UNION {get_all_prerequisites(cs, cache, t) : t \in targets}

\* compute_learning_path: the list of {concept_id, estimated_hours}.
compute_learning_path(cs, cache, targets, mastered, vel) ==
    LET unmastered == Required(cs, cache, targets) \ mastered
        order == transfer_optimized_toposort(cs, unmastered)
    IN  [i \in DOMAIN order |->
            [concept_id |-> order[i],
             estimated_hours |-> EstimatedHours(cs, order[i], mastered, vel)]]

\* The cache after compute_learning_path: one entry per target.
RECURSIVE CacheAfterAll(_, _, _)
CacheAfterAll(cs, cache, targets) ==
    IF targets = {} THEN cache
    ELSE LET t == CHOOSE x \in targets : TRUE
         IN  CacheAfterAll(cs, CacheAfter(cs, cache, t), targets \ {t})

\* ---- the curriculum (backend/agents/curriculum.py) ----

\* mastered of select_next_concept (lines 15-18).
MasteredOf(states) == {cid \in DOMAIN states : states[cid] = "mastered"}

\* A check of the prerequisites that passes every concept.
PrereqsUnchecked(cs, states, cid) == TRUE

\* prereqs_met (lines 40-43): every direct prerequisite has a state whose
\* status is mastered.
prereqs_met(cs, states, cid) ==
    \A p \in Range(get_prerequisites(cs, cid)) :
        p \in DOMAIN states /\ states[p] = "mastered"

\* The loop of lines 36-45 from step i on: the first step whose concept has
\* no state or is unknown or introduced and whose prerequisites are met, 0
\* when the loop ends without returning.
RECURSIVE FirstReady(_, _, _, _)
FirstReady(cs, states, path, i) ==
    IF i > Len(path) THEN 0
    ELSE LET cid == path[i].concept_id
         IN  IF /\ states[cid] \in {"none", "unknown", "introduced"}
                /\ (prereqs_met(cs, states, cid) \/ get_prerequisites(cs, cid) = <<>>)
             THEN i
             ELSE FirstReady(cs, states, path, i + 1)

\* select_next_concept (lines 14-51) for the required concepts of the
\* learner's career targets and the statuses of the learner: the id returned
\* or None, and the branch that returned ("main" and "fallback" return an
\* id, "no targets" and "empty path" return None).
select_next_concept(cs, cache, role_concepts, states, vel) ==
    LET target_concepts == IF role_concepts = {} THEN DOMAIN cs ELSE role_concepts
        path == compute_learning_path(cs, cache, target_concepts,
                                      MasteredOf(states), vel)
        ready == FirstReady(cs, states, path, 1)
    IN  IF target_concepts = {} THEN [ret |-> None, branch |-> "no targets"]
        ELSE IF ready # 0 THEN [ret |-> path[ready].concept_id, branch |-> "main"]
        ELSE IF path # <<>> THEN [ret |-> path[1].concept_id, branch |-> "fallback"]
        ELSE [ret |-> None, branch |-> "empty path"]

(***************************************************************************)
(* Operations of the graph store                                           *)
(***************************************************************************)
NoCall == [op |-> "none"]

KGInit ==
    /\ concepts = <<>>
    /\ prerequisite_cache = <<>>
    /\ kg_call = NoCall

\* A store that takes every concept of the batch, over the one it holds.
RECURSIVE AddAllOverwriting(_, _)
AddAllOverwriting(cs, batch) ==
    IF batch = <<>> THEN cs
    ELSE LET c == Head(batch)
         IN  AddAllOverwriting([x \in DOMAIN cs \cup {c.id} |->
                                   IF x = c.id THEN c.value ELSE cs[x]],
                               Tail(batch))

\* The store after add_concepts(batch): an id already present is skipped.
RECURSIVE AddAll(_, _)
AddAll(cs, batch) ==
    IF batch = <<>> THEN cs
    ELSE LET c == Head(batch)
             cs2 == IF c.id \in DOMAIN cs THEN cs
                    ELSE [x \in DOMAIN cs \cup {c.id} |->
                            IF x = c.id THEN c.value ELSE cs[x]]
         IN  AddAll(cs2, Tail(batch))

\* self._prerequisite_cache.clear() (lines 26, 47).
ClearedCache(cache) == <<>>

\* An entry of a graph file that Concept(**raw) rejects (line 24, the
\* validation of backend/models/concept.py lines 26-39).
InvalidRaw == [invalid |-> TRUE]

\* The loop of load (lines 23-25) over the entries of a file: a valid entry
\* is stored over whatever the store holds under its id, an invalid one
\* raises and ends the call with the entries before it stored.
RECURSIVE LoadAll(_, _)
LoadAll(cs, file) ==
    IF file = <<>> THEN [concepts |-> cs, raised |-> FALSE]
    ELSE IF "invalid" \in DOMAIN Head(file) THEN [concepts |-> cs, raised |-> TRUE]
    ELSE LET c == Head(file)
         IN  LoadAll([x \in DOMAIN cs \cup {c.id} |->
                         IF x = c.id THEN c.value ELSE cs[x]], Tail(file))

\* load(path) (lines 18-26) of a file of Files: the cache is cleared after
\* the loop, so not when the loop raises.
Load(Files) ==
    \E file \in Files :
        LET loaded == LoadAll(concepts, file)
        IN  /\ PrereqEntries(loaded.concepts) + TransferEdges(loaded.concepts)
                  <= MaxEdges
            /\ concepts' = loaded.concepts
            /\ prerequisite_cache' = IF loaded.raised THEN prerequisite_cache
                                     ELSE ClearedCache(prerequisite_cache)
            /\ kg_call' = [op |-> "load", entries |-> Len(file),
                           raised |-> loaded.raised]
            /\ UNCHANGED kg_frame

\* add_concepts with a list of one concept (lines 28-49).  The concept passed
\* with an id already in the store is skipped whatever it holds.
AddOne(Ids, Values) ==
    \E id \in Ids :
        \E v \in IF id \in DOMAIN concepts THEN {concepts[id]} ELSE Values :
            LET cs2 == AddAll(concepts, <<[id |-> id, value |-> v]>>)
            IN  /\ PrereqEntries(cs2) + TransferEdges(cs2) <= MaxEdges
                /\ concepts' = cs2
                /\ prerequisite_cache' = ClearedCache(prerequisite_cache)
                /\ kg_call' = [op |-> "add_concepts", id |-> id,
                               added |-> Cardinality(DOMAIN cs2)
                                         - Cardinality(DOMAIN concepts)]
                /\ UNCHANGED kg_frame

AddConcepts == AddOne(ConceptIds, ConceptValues)

\* added of add_concepts (lines 29, 33): one per concept of the batch whose
\* id the store does not hold when its turn comes.
RECURSIVE AddedCount(_, _)
AddedCount(cs, batch) ==
    IF batch = <<>> THEN 0
    ELSE LET c == Head(batch)
         IN  IF c.id \in DOMAIN cs THEN AddedCount(cs, Tail(batch))
             ELSE 1 + AddedCount(AddAll(cs, <<c>>), Tail(batch))

\* add_concepts(batch) (lines 28-49) with a batch of Batches; the call is
\* recorded with the batch and the number returned.
AddBatch(Batches) ==
    \E batch \in Batches :
        /\ concepts' = AddAll(concepts, batch)
        /\ prerequisite_cache' = ClearedCache(prerequisite_cache)
        /\ kg_call' = [op |-> "add_concepts", batch |-> batch,
                       added |-> AddedCount(concepts, batch)]
        /\ UNCHANGED kg_frame

\* get_all_prerequisites(cid) (lines 64-77).
GetAllPrerequisites ==
    \E cid \in ConceptIds :
        /\ kg_call' = [op |-> "get_all_prerequisites", id |-> cid,
                       ret |-> get_all_prerequisites(concepts, prerequisite_cache, cid),
                       walk |-> WalkOf(concepts, prerequisite_cache, cid)]
        /\ prerequisite_cache' = CacheAfter(concepts, prerequisite_cache, cid)
        /\ UNCHANGED <<concepts, kg_frame>>

\* Velocities of the learner's single domain, in tenths: the default of
\* velocities.get(domain, 1.0).
Velocities == {10}

\* compute_learning_path(targets, mastered, velocities) (lines 122-149) for
\* a target set of Targets and a mastered set of Mastered.  The code has no
\* failure path: it always returns a list.
PathQuery(Targets, Mastered) ==
    \E targets \in Targets, mastered \in Mastered, vel \in Velocities :
        /\ kg_call' = [op |-> "compute_learning_path",
                       targets |-> targets, mastered |-> mastered, vel |-> vel,
                       status |-> "returned",
                       path |-> compute_learning_path(concepts, prerequisite_cache,
                                                      targets, mastered, vel)]
        /\ prerequisite_cache' = CacheAfterAll(concepts, prerequisite_cache, targets)
        /\ UNCHANGED <<concepts, kg_frame>>

ComputeLearningPath ==
    PathQuery(SubsetsUpTo(ConceptIds, MaxTargets), SubsetsUpTo(ConceptIds, MaxMastered))

\* get_concept(cid), get_prerequisites(cid) and get_transfer_edge(source,
\* target) (lines 51-62, 79-86): queries, the store is left alone.
GetConcept ==
    \E cid \in ConceptIds :
        /\ kg_call' = [op |-> "get_concept", id |-> cid,
                       ret |-> get_concept(concepts, cid)]
        /\ UNCHANGED <<concepts, prerequisite_cache, kg_frame>>

GetPrerequisites ==
    \E cid \in ConceptIds :
        /\ kg_call' = [op |-> "get_prerequisites", id |-> cid,
                       ret |-> get_prerequisites(concepts, cid)]
        /\ UNCHANGED <<concepts, prerequisite_cache, kg_frame>>

GetTransferEdge ==
    \E source \in ConceptIds, target \in ConceptIds :
        /\ kg_call' = [op |-> "get_transfer_edge", id |-> source, target |-> target,
                       ret |-> IF get_transfer_edge(concepts, source, target)
                               THEN [target |-> target, strength |-> TransferStrength]
                               ELSE None]
        /\ UNCHANGED <<concepts, prerequisite_cache, kg_frame>>

\* curriculum_agent.select_next_concept(learner) for career targets whose
\* required concepts are a set of Targets and concept states of States; the
\* path query fills the cache with the closure of each target.
SelectNextConcept(Targets, States) ==
    \E role_concepts \in Targets, states \in States, vel \in Velocities :
        LET selected == select_next_concept(concepts, prerequisite_cache,
                                            role_concepts, states, vel)
            target_concepts == IF role_concepts = {} THEN DOMAIN concepts
                               ELSE role_concepts
        IN  /\ kg_call' = [op |-> "select_next_concept",
                           targets |-> target_concepts, states |-> states,
                           ret |-> selected.ret, branch |-> selected.branch]
            /\ prerequisite_cache' =
                  CacheAfterAll(concepts, prerequisite_cache, target_concepts)
            /\ UNCHANGED <<concepts, kg_frame>>

KGNext == AddConcepts \/ GetAllPrerequisites \/ ComputeLearningPath

(***************************************************************************)
(* Review scheduler: SM-2 with profile parameters                          *)
(* (src/backend/agents/review_scheduler.py)                                *)
(*                                                                         *)
(* Units.  Easiness factors are counted in EFUnit-ths (EFUnit to 1.0), so  *)
(* that every value the update can produce is an integer; days are counted *)
(* in ticks (DayTicks to a day); scores in tenths; the parameters of a     *)
(* profile in thousandths.  The arithmetic is the exact arithmetic of the  *)
(* decimal values the code writes.                                         *)
(***************************************************************************)
EFUnit == 4000
DayTicks == 4000000
TenthOfDay == DayTicks \div 10
MilliEF == EFUnit \div 1000

\* SM2_PROFILES (rl_engine.py lines 533-539), in thousandths:
\* (init_ef, min_ef, (ef_a, ef_b, ef_c), miscon_penalty, reset_interval).
SM2_PROFILES == <<
    [init_ef |-> 2500, min_ef |-> 1300, ef_a |-> 100, ef_b |-> 80, ef_c |-> 20,
     miscon_penalty |-> 150, reset_interval |-> 1000],
    [init_ef |-> 2300, min_ef |-> 1200, ef_a |-> 120, ef_b |-> 100, ef_c |-> 30,
     miscon_penalty |-> 200, reset_interval |-> 500],
    [init_ef |-> 2700, min_ef |-> 1400, ef_a |-> 80, ef_b |-> 60, ef_c |-> 10,
     miscon_penalty |-> 100, reset_interval |-> 1500],
    [init_ef |-> 2500, min_ef |-> 1300, ef_a |-> 100, ef_b |-> 80, ef_c |-> 20,
     miscon_penalty |-> 250, reset_interval |-> 1000],
    [init_ef |-> 2400, min_ef |-> 1200, ef_a |-> 110, ef_b |-> 90, ef_c |-> 25,
     miscon_penalty |-> 150, reset_interval |-> 750] >>

DEFAULT_SM2_PROFILE == 1

\* round(x, 3) of an easiness factor and round(x, 1) of a number of days:
\* the nearest value of the grid, a tie going to the even one.
RoundTo(x, grid) == grid * RoundDiv(x, grid)

\* ReviewItem(concept_id) with the defaults of __init__ (lines 13-23).
NewReviewItem(cid, t) ==
    [concept_id |-> cid, easiness_factor |-> (5 * EFUnit) \div 2,
     repetition_count |-> 0, interval_days |-> DayTicks, next_review |-> t,
     last_score |-> 0, misconception_count |-> 0]

\* ReviewItem.to_dict (lines 25-34).  last_score is a score in tenths, which
\* round(x, 3) leaves as it is.
ReviewItem_to_dict(item) ==
    [concept_id |-> item.concept_id,
     easiness_factor |-> RoundTo(item.easiness_factor, MilliEF),
     repetition_count |-> item.repetition_count,
     interval_days |-> RoundTo(item.interval_days, TenthOfDay),
     next_review |-> item.next_review,
     last_score |-> item.last_score,
     misconception_count |-> item.misconception_count]

\* ReviewItem.from_dict (lines 36-46): every field is taken from the dict.
ReviewItem_from_dict(data) ==
    [concept_id |-> data.concept_id,
     easiness_factor |-> data.easiness_factor,
     repetition_count |-> data.repetition_count,
     interval_days |-> data.interval_days,
     next_review |-> data.next_review,
     last_score |-> data.last_score,
     misconception_count |-> data.misconception_count]

\* The position of a concept in the serialized queue, 0 when it has none.
\* _load_queue keys the items by concept_id (lines 278-284).
QueueIndex(q, cid) ==
    IF \E i \in DOMAIN q : q[i].concept_id = cid
    THEN CHOOSE i \in DOMAIN q : q[i].concept_id = cid
    ELSE 0

\* The easiness factor without the lower bound (line 84), for a score in
\* tenths: 5 - quality is (10 - score) / 2.
EFUnclamped(ef, p, score) ==
    LET h == 10 - score
    IN  ef + 4 * p.ef_a - 2 * h * p.ef_b - h * h * p.ef_c

\* The easiness factor of the call (lines 82-85).
EFUpdate(ef, p, score) == Max(MilliEF * p.min_ef, EFUnclamped(ef, p, score))

\* quality >= 3 (line 87), quality being score * 5.
Recalled(score) == score * 5 >= 30

\* reset_interval in ticks.
ResetInterval(p) == p.reset_interval * (DayTicks \div 1000)

\* The interval of a call that takes every answer for a failed recall.
IntervalReset(item, ef, p, score) == ResetInterval(p)

\* The interval before the misconception penalty (lines 87-99); ef is the
\* easiness factor the call has just computed.
IntervalUpdate(item, ef, p, score) ==
    IF Recalled(score)
    THEN IF item.repetition_count = 0 THEN ResetInterval(p)
         ELSE IF item.repetition_count = 1 THEN ResetInterval(p) * 6
         ELSE (item.interval_days \div EFUnit) * ef
    ELSE ResetInterval(p)

\* The interval with no penalty at all.
PenaltySkipped(interval, p, miscon_count) == interval

\* The misconception penalty (lines 102-103).
Penalty(interval, p, miscon_count) ==
    IF miscon_count > 0
    THEN (interval \div 100) * ((1000 - p.miscon_penalty * Min(miscon_count, 3)) \div 10)
    ELSE interval

\* The item after the SM-2 step of schedule_review (lines 73-107).
SM2Step(item, p, score, miscon_count, t) ==
    LET ef == EFUpdate(item.easiness_factor, p, score)
        interval == Penalty(IntervalUpdate(item, ef, p, score), p, miscon_count)
    IN  [concept_id |-> item.concept_id,
         easiness_factor |-> ef,
         repetition_count |-> IF Recalled(score) THEN item.repetition_count + 1 ELSE 0,
         interval_days |-> interval,
         next_review |-> t + interval,
         last_score |-> score,
         misconception_count |-> miscon_count]

\* The item schedule_review starts from (lines 62-66).
LoadedItem(q, cid, t) ==
    IF QueueIndex(q, cid) = 0 THEN NewReviewItem(cid, t)
    ELSE ReviewItem_from_dict(q[QueueIndex(q, cid)])

\* A save that appends the item of the call to the stored list.
SavedQueueAppending(q, updated) == Append(q, ReviewItem_to_dict(updated))

\* _save_queue (lines 286-289) after the step: every item of the queue is
\* serialized again, a new item goes last.
SavedQueue(q, updated) ==
    LET i == QueueIndex(q, updated.concept_id)
        rest == [k \in DOMAIN q |->
                   IF k = i THEN ReviewItem_to_dict(updated)
                   ELSE ReviewItem_to_dict(ReviewItem_from_dict(q[k]))]
    IN  IF i = 0 THEN Append(rest, ReviewItem_to_dict(updated)) ELSE rest

\* One entry of the list get_due_reviews builds (lines 129-139), or no entry
\* for an item that is not due: overdue_days is rounded to one decimal and
\* urgency to two.
DueEntry(item, t) ==
    LET overdue == t - item.next_review
        base == Max(item.interval_days, DayTicks)
    IN  [concept_id |-> item.concept_id,
         overdue_days |-> RoundDiv(overdue, TenthOfDay),
         urgency |-> RoundDiv(overdue, base \div 100),
         last_score |-> item.last_score,
         easiness_factor |-> item.easiness_factor,
         repetition_count |-> item.repetition_count]

\* The entries of the due items, in the order of the queue (lines 123-139).
RECURSIVE DueList(_, _)
DueList(q, t) ==
    IF q = <<>> THEN <<>>
    ELSE LET item == ReviewItem_from_dict(Head(q))
         IN  IF item.next_review <= t
             THEN <<DueEntry(item, t)>> \o DueList(Tail(q), t)
             ELSE DueList(Tail(q), t)

\* list.sort(key=urgency, reverse=True) (line 141): a stable sort, so entries
\* of equal key keep the order they had.
RECURSIVE SortByUrgency(_)
SortByUrgency(due) ==
    IF due = <<>> THEN <<>>
    ELSE LET sorted == SortByUrgency(SubSeq(due, 1, Len(due) - 1))
             e == due[Len(due)]
             ahead == {i \in DOMAIN sorted : sorted[i].urgency >= e.urgency}
             k == IF ahead = {} THEN 0 ELSE CHOOSE i \in ahead : \A j \in ahead : j <= i
         IN  SubSeq(sorted, 1, k) \o <<e>> \o SubSeq(sorted, k + 1, Len(sorted))

\* get_due_reviews(learner, limit) (lines 118-142).
get_due_reviews(q, t, limit) ==
    LET due == SortByUrgency(DueList(q, t))
    IN  SubSeq(due, 1, Min(limit, Len(due)))

(***************************************************************************)
(* Operations of the review scheduler                                      *)
(***************************************************************************)
\* ---- the retention curve ----

\* math.exp is carried out on fixed-point numbers of ExpScale to the unit.
ExpScale == 100000000

\* a * b = q * c + r with 0 <= r < c, for a, b >= 0 and c > 0, without an
\* intermediate product: b is taken bit by bit.
RECURSIVE MulDivQR(_, _, _)
MulDivQR(a, b, c) ==
    IF b = 0 THEN [q |-> 0, r |-> 0]
    ELSE LET h == MulDivQR(a, b \div 2, c)
             dq == 2 * h.q + (2 * h.r) \div c
             dr == (2 * h.r) % c
         IN  IF b % 2 = 0 THEN [q |-> dq, r |-> dr]
             ELSE [q |-> dq + (a \div c) + ((dr + (a % c)) \div c),
                   r |-> (dr + (a % c)) % c]

MulDiv(a, b, c) == MulDivQR(a, b, c).q

\* a * b / ExpScale rounded down, for 0 <= a, b < 4 * ExpScale: the factors
\* are split at ExpRoot, the square root of ExpScale, so that no partial
\* product leaves 32 bits.
ExpRoot == 10000
MulScaled(a, b) ==
    LET a1 == a \div ExpRoot
        a0 == a % ExpRoot
        b1 == b \div ExpRoot
        b0 == b % ExpRoot
        mid == a1 * b0 + a0 * b1
    IN  a1 * b1 + (mid \div ExpRoot)
        + (((mid % ExpRoot) * ExpRoot + a0 * b0) \div ExpScale)

\* The series of exp(sign * y) from the term of order k on, for 0 <= y < 1.
ExpTerms == 14
RECURSIVE ExpSeries(_, _, _, _)
ExpSeries(y, sign, term, k) ==
    IF k > ExpTerms \/ term = 0 THEN 0
    ELSE (IF sign < 0 /\ k % 2 = 1 THEN -term ELSE term)
         + ExpSeries(y, sign, MulScaled(term, y) \div (k + 1), k + 1)

\* e squared n times.
RECURSIVE Squared(_, _)
Squared(e, n) == IF n = 0 THEN e ELSE Squared(MulScaled(e, e), n - 1)

\* math.exp(x) for -1 <= x: exp(x / 32) to the power 32; below exp(-20) the
\* value is 0 to eight decimals.
ExpHalvings == 5
ExpFloor == 20
ExpFixed(x) ==
    IF x <= -ExpFloor * ExpScale THEN 0
    ELSE LET y == (IF x < 0 THEN -x ELSE x) \div (2 ^ ExpHalvings)
         IN  Squared(ExpSeries(y, IF x < 0 THEN -1 ELSE 1, ExpScale, 0), ExpHalvings)

\* days_since of get_retention_curve (lines 157-159), in ticks: the last
\* review is taken to be interval_days before next_review.
DaysSince(item, t) == t - (item.next_review - item.interval_days)

\* stability = interval_days * easiness_factor (line 155), in ten-thousandths
\* of a day, and max(stability, 0.1).
Stability(item) ==
    (item.interval_days \div TenthOfDay) * (item.easiness_factor \div MilliEF)

StabilityFloor == 1000

\* -days_since / max(stability, 0.1) (line 163), ExpScale to the unit; a
\* quotient below -ExpFloor is reported as -ExpFloor.
DecayExponent(item, t) ==
    LET s == Max(Stability(item), StabilityFloor)
        ds == DaysSince(item, t)
        mag == IF ds < 0 THEN -ds ELSE ds
        ticks == DayTicks \div 10000
    IN  IF mag \div ticks >= ExpFloor * s THEN -ExpFloor * ExpScale
        ELSE IF ds < 0 THEN MulDiv(mag, ExpScale \div ticks, s)
        ELSE -MulDiv(mag, ExpScale \div ticks, s)

\* get_retention_curve (lines 149-172) on the serialized queue: retention in
\* thousandths, stability in tenths of a day.  The record leaves out
\* days_since_review, the rounded copy of days_since.
get_retention_curve(q, cid, t) ==
    IF QueueIndex(q, cid) = 0
    THEN [concept_id |-> cid, retention |-> 0, stability |-> 0]
    ELSE LET item == ReviewItem_from_dict(q[QueueIndex(q, cid)])
         IN  [concept_id |-> cid,
              retention |-> RoundDiv(ExpFixed(DecayExponent(item, t)),
                                     ExpScale \div 1000),
              stability |-> RoundDiv(Stability(item), 1000),
              interval_days |-> item.interval_days,
              easiness_factor |-> item.easiness_factor]

RSInit ==
    /\ review_queue = <<>>
    /\ now = 0
    /\ reviews_done = 0
    /\ advances_done = 0
    /\ rs_call = NoCall

\* schedule_review(learner, concept_id, score) (lines 61-115) for a concept
\* of C, a score of S, the profile _get_sm2_profile selects out of P and a
\* number of active misconceptions of M.  The call is recorded with the item
\* it started from and the item it left in memory before the save.
ScheduleReview(C, S, P, M) ==
    \E cid \in C, score \in S, profile \in P, miscon_count \in M :
        LET prior == LoadedItem(review_queue, cid, now)
            item == SM2Step(prior, SM2_PROFILES[profile], score, miscon_count, now)
        IN  /\ review_queue' = SavedQueue(review_queue, item)
            /\ reviews_done' = reviews_done + 1
            /\ rs_call' = [op |-> "schedule_review", profile |-> profile,
                           score |-> score, miscon_count |-> miscon_count,
                           prior |-> prior, item |-> item]
            /\ UNCHANGED <<now, advances_done, rs_frame>>

\* get_due_reviews(learner, limit): a query, the queue is left alone.
GetDueReviews(L) ==
    \E limit \in L :
        /\ rs_call' = [op |-> "get_due_reviews", limit |-> limit,
                       ret |-> get_due_reviews(review_queue, now, limit)]
        /\ UNCHANGED <<review_queue, now, reviews_done, advances_done, rs_frame>>

\* get_retention_curve(learner, concept_id) for a concept of C: a query.  The
\* call is recorded with the days_since the code computed, in ticks, when
\* the concept has an item.
GetRetentionCurve(C) ==
    \E cid \in C :
        /\ rs_call' =
              [op |-> "get_retention_curve", id |-> cid,
               found |-> QueueIndex(review_queue, cid) # 0,
               days_since |->
                   IF QueueIndex(review_queue, cid) = 0 THEN 0
                   ELSE DaysSince(ReviewItem_from_dict(
                            review_queue[QueueIndex(review_queue, cid)]), now),
               ret |-> get_retention_curve(review_queue, cid, now)]
        /\ UNCHANGED <<review_queue, now, reviews_done, advances_done, rs_frame>>

\* Time passes between two calls.
Advance(Steps) ==
    \E step \in Steps :
        /\ now' = now + step
        /\ advances_done' = advances_done + 1
        /\ UNCHANGED <<review_queue, reviews_done, rs_call, rs_frame>>

(***************************************************************************)
(* Adaptive policy engine (src/backend/agents/rl_engine.py)                *)
(*                                                                         *)
(* Units.  Scores and the alpha and beta of an arm are counted in tenths,  *)
(* rewards in tenths, thresholds and retest multipliers in hundredths, Q   *)
(* values in QUnit-ths.  A dict is a sequence of entries in insertion      *)
(* order, which is the order the code iterates it in.  A string a key is   *)
(* converted to is the sequence of its characters.                         *)
(***************************************************************************)
ALL_STRATEGIES ==
    <<"socratic", "worked_examples", "analogy", "debugging_exercise", "explain_back">>
DIFFICULTY_LEVELS == <<1, 2, 3>>
MASTERY_THRESHOLDS == <<55, 60, 65, 70, 75, 80>>
RETEST_MULTIPLIERS == <<45, 50, 57, 65, 70>>

Digits == <<"0", "1", "2", "3", "4", "5", "6", "7", "8", "9">>

\* The digit a character stands for, -1 for any other character.
DigitValue(ch) ==
    IF \E d \in DOMAIN Digits : Digits[d] = ch
    THEN (CHOOSE d \in DOMAIN Digits : Digits[d] = ch) - 1
    ELSE -1

\* str(n) of a natural number.
RECURSIVE NatStr(_)
NatStr(n) ==
    IF n < 10 THEN <<Digits[n + 1]>>
    ELSE NatStr(n \div 10) \o <<Digits[(n % 10) + 1]>>

\* str(x) of the float of n hundredths, n >= 0: the shortest decimal that
\* reads back as the float, with at least one digit after the point.
FloatStr(n) ==
    LET whole == NatStr(n \div 100)
        frac == n % 100
    IN  IF frac % 10 = 0 THEN whole \o <<".", Digits[(frac \div 10) + 1]>>
        ELSE whole \o <<".", Digits[(frac \div 10) + 1], Digits[(frac % 10) + 1]>>

\* str(x) of the float whose value is the integer n.
WholeFloatStr(n) == FloatStr(100 * n)

\* str(n) of an int, as DifficultyBandit.to_dict and the profile bandits'
\* to_dict apply it to a key (lines 261, 515, 640).
IntStr(n) == IF n < 0 THEN <<"-">> \o NatStr(-n) ELSE NatStr(n)

\* The value of a string of digits, -1 for anything else.
RECURSIVE ParseNat(_)
ParseNat(s) ==
    IF s = <<>> \/ \E i \in DOMAIN s : DigitValue(s[i]) < 0 THEN -1
    ELSE IF Len(s) = 1 THEN DigitValue(s[1])
    ELSE 10 * ParseNat(SubSeq(s, 1, Len(s) - 1)) + DigitValue(s[Len(s)])

Parsed(v) == [ok |-> TRUE, value |-> v]
NotParsed == [ok |-> FALSE, value |-> 0]

\* int(s) (lines 280, 526, 651): an optional sign and digits; not ok where
\* int raises ValueError.
ParseInt(s) ==
    LET negative == s # <<>> /\ s[1] = "-"
        v == ParseNat(IF negative THEN Tail(s) ELSE s)
    IN  IF v < 0 THEN NotParsed ELSE Parsed(IF negative THEN -v ELSE v)

\* float(s) in hundredths (lines 282, 284), for the strings str writes for a
\* float of at most two decimals, and for the digits of an int.
ParseFloat(s) ==
    IF \E i \in DOMAIN s : s[i] = "."
    THEN LET dot == CHOOSE i \in DOMAIN s : s[i] = "."
             whole == ParseNat(SubSeq(s, 1, dot - 1))
             frac == SubSeq(s, dot + 1, Len(s))
             fracval == ParseNat(frac)
         IN  IF whole < 0 \/ fracval < 0 \/ Len(frac) > 2 THEN NotParsed
             ELSE Parsed(100 * whole + (IF Len(frac) = 1 THEN 10 * fracval ELSE fracval))
    ELSE LET v == ParseInt(s)
         IN  IF v.ok THEN Parsed(100 * v.value) ELSE NotParsed

\* _discretize_velocity, _discretize_calibration, _discretize_misconceptions
\* (lines 134-155): velocity in tenths, calibration gap in hundredths.
discretize_velocity(velocity) ==
    IF velocity < 7 THEN "slow" ELSE IF velocity > 13 THEN "fast" ELSE "normal"

discretize_calibration(cal_gap) ==
    IF cal_gap > 15 THEN "over" ELSE IF cal_gap < -15 THEN "under" ELSE "calibrated"

discretize_misconceptions(count) ==
    IF count = 0 THEN "none" ELSE IF count <= 2 THEN "some" ELSE "many"

\* DifficultyBandit._context_key (lines 171-172): the three parts of the key.
DifficultyContext(velocity, cal_gap, miscon_count) ==
    <<discretize_velocity(velocity), discretize_calibration(cal_gap),
      discretize_misconceptions(miscon_count)>>

\* _bucket_session_duration (lines 426-431).
bucket_session_duration(minutes) ==
    IF minutes < 15 THEN "short" ELSE IF minutes < 45 THEN "medium" ELSE "long"

\* EngagementBandit._context_key (lines 466-472) of a session with no score
\* and no response time recorded yet.
EngagementContext(minutes) == <<bucket_session_duration(minutes), "unknown", "unknown">>

\* _bucket_misconception_density (lines 566-574).
bucket_misconception_density(count, total) ==
    IF total = 0 THEN "unknown"
    ELSE IF count = 0 THEN "none"
    ELSE IF 10 * count < 3 * total THEN "some" ELSE "many"

\* SchedulerBandit._context_key (lines 587-593) of a learner with an empty
\* review queue.
SchedulerContext(miscon_count, total_concepts) ==
    <<"unknown", "unknown", bucket_misconception_density(miscon_count, total_concepts)>>

\* The position of a key in a dict, 0 when the dict does not hold it.
KeyIndex(dict, key) ==
    IF \E i \in DOMAIN dict : dict[i].key = key
    THEN CHOOSE i \in DOMAIN dict : dict[i].key = key
    ELSE 0

\* dict.get(key, {}) of a table of tables.
Lookup(table, key) ==
    IF KeyIndex(table, key) = 0 THEN <<>> ELSE table[KeyIndex(table, key)].value

\* dict[key] = value: a new key goes last.
Store(dict, key, value) ==
    IF KeyIndex(dict, key) = 0 THEN Append(dict, [key |-> key, value |-> value])
    ELSE [dict EXCEPT ![KeyIndex(dict, key)].value = value]

\* The table after one observation: the context and the candidate are
\* created on first use with [0.0, 0], then the reward is added and the
\* count grows by one (lines 237-242, 244-249, 225-230, 498-503, 623-628).
Observe(table, ctx, key, reward) ==
    LET actions == Lookup(table, ctx)
        old == IF KeyIndex(actions, key) = 0 THEN <<0, 0>> ELSE Lookup(actions, key)
    IN  Store(table, ctx, Store(actions, key, <<old[1] + reward, old[2] + 1>>))

\* ---- layer 1: strategy bandit ----

\* StrategyBandit.__init__ (lines 65-69): every arm at [1.0, 1.0].
NewStrategyBandit ==
    [arms |-> [i \in DOMAIN ALL_STRATEGIES |->
                 [key |-> ALL_STRATEGIES[i], value |-> <<10, 10>>]]]

\* An update that adds the score to alpha and leaves beta alone.
StrategyUpdateAlphaOnly(bandit, strategy, score) ==
    LET old == IF KeyIndex(bandit.arms, strategy) = 0 THEN <<10, 10>>
               ELSE Lookup(bandit.arms, strategy)
    IN  [arms |-> Store(bandit.arms, strategy, <<old[1] + score, old[2]>>)]

\* StrategyBandit.update (lines 95-100).
StrategyUpdate(bandit, strategy, score) ==
    LET old == IF KeyIndex(bandit.arms, strategy) = 0 THEN <<10, 10>>
               ELSE Lookup(bandit.arms, strategy)
    IN  [arms |-> Store(bandit.arms, strategy, <<old[1] + score, old[2] + (10 - score)>>)]

\* ---- get_exclusion_set (lines 102-113) ----

RECURSIVE GCD(_, _)
GCD(a, b) == IF b = 0 THEN a ELSE GCD(b, a % b)

\* evs (lines 104-107): the arms with alpha + beta > 3, in the order of the
\* dict.
RECURSIVE QualifyingArms(_)
QualifyingArms(arms) ==
    IF arms = <<>> THEN <<>>
    ELSE IF Head(arms).value[1] + Head(arms).value[2] > 30
         THEN <<Head(arms)>> \o QualifyingArms(Tail(arms))
         ELSE QualifyingArms(Tail(arms))

\* The least common multiple of alpha + beta over the arms: the expected
\* values alpha / (alpha + beta) are whole numbers of CommonDen-ths.
RECURSIVE CommonDen(_)
CommonDen(evs) ==
    IF evs = <<>> THEN 1
    ELSE LET d == Head(evs).value[1] + Head(evs).value[2]
             rest == CommonDen(Tail(evs))
         IN  (d \div GCD(d, rest)) * rest

EvOver(arm, D) == arm.value[1] * (D \div (arm.value[1] + arm.value[2]))

RECURSIVE EvSum(_, _)
EvSum(evs, D) ==
    IF evs = <<>> THEN 0 ELSE EvOver(Head(evs), D) + EvSum(Tail(evs), D)

RECURSIVE EvSquares(_, _)
EvSquares(evs, D) ==
    IF evs = <<>> THEN 0
    ELSE EvOver(Head(evs), D) * EvOver(Head(evs), D) + EvSquares(Tail(evs), D)

\* Where the expected value of arm stands against
\* threshold = max(0.15, mean_ev - std_ev) (lines 110-112) in exact
\* arithmetic: "below", "at" or "above".  With n arms, S the sum of the
\* expected values and Q the sum of their squares, ev < mean - std is
\* S - n * ev > 0 and (S - n * ev)^2 > n * Q - S^2.  When all the expected
\* values are equal the computed std_ev is the distance of the computed
\* mean_ev from them, the threshold does not exceed them, and the arm is
\* "above".
ThresholdSide(evs, arm) ==
    LET n == Len(evs)
        D == CommonDen(evs)
        gap == EvSum(evs, D) - n * EvOver(arm, D)
        nvar == n * EvSquares(evs, D) - EvSum(evs, D) * EvSum(evs, D)
        a20 == 20 * arm.value[1]
        d3 == 3 * (arm.value[1] + arm.value[2])
    IN  IF a20 < d3 \/ (gap > 0 /\ gap * gap > nvar) THEN "below"
        ELSE IF a20 = d3 \/ (gap > 0 /\ gap * gap = nvar) THEN "at"
        ELSE "above"

\* The strategies whose expected value equals the threshold exactly.
AtThreshold(bandit) ==
    LET evs == QualifyingArms(bandit.arms)
    IN  IF Len(evs) < 2 THEN {}
        ELSE {evs[i].key : i \in {j \in DOMAIN evs : ThresholdSide(evs, evs[j]) = "at"}}

\* The list of line 113 over the first k of evs.  mean_ev, std_ev and the
\* expected values are floating-point numbers: for an arm that stands at
\* the threshold 'ev < threshold' comes out as the rounding has it, and
\* rounded holds the strategies for which it comes out true.
RECURSIVE ExcludedOf(_, _, _)
ExcludedOf(evs, k, rounded) ==
    IF k = 0 THEN <<>>
    ELSE LET side == ThresholdSide(evs, evs[k])
         IN  IF side = "below" \/ (side = "at" /\ evs[k].key \in rounded)
             THEN Append(ExcludedOf(evs, k - 1, rounded), evs[k].key)
             ELSE ExcludedOf(evs, k - 1, rounded)

\* StrategyBandit.get_exclusion_set (lines 102-113).
get_exclusion_set(bandit, rounded) ==
    LET evs == QualifyingArms(bandit.arms)
    IN  IF Len(evs) < 2 THEN <<>> ELSE ExcludedOf(evs, Len(evs), rounded)

\* get_best over the first n arms (lines 86-93): the running best strategy
\* and its expected value as a fraction; a later arm wins only if greater.
RECURSIVE BestOfFirst(_, _)
BestOfFirst(arms, n) ==
    IF n = 0 THEN [strategy |-> ALL_STRATEGIES[1], num |-> -1, den |-> 1]
    ELSE LET best == BestOfFirst(arms, n - 1)
             a == arms[n].value[1]
             b == arms[n].value[2]
         IN  IF a * best.den > best.num * (a + b)
             THEN [strategy |-> arms[n].key, num |-> a, den |-> a + b]
             ELSE best

\* The loop of StrategyBandit.select over the first n arms (lines 73-82):
\* an arm in exclude is skipped, the others draw a sample from their Beta
\* distribution (samples[i] for arm i, a positive number) and the strictly
\* greatest sample so far wins; before the loop the best is the first of
\* ALL_STRATEGIES with a sample of -1.0.
RECURSIVE SelectLoop(_, _, _, _)
SelectLoop(arms, n, exclude, samples) ==
    IF n = 0 THEN [strategy |-> ALL_STRATEGIES[1], sample |-> -1]
    ELSE LET best == SelectLoop(arms, n - 1, exclude, samples)
         IN  IF arms[n].key \in exclude THEN best
             ELSE IF samples[n] > best.sample
             THEN [strategy |-> arms[n].key, sample |-> samples[n]]
             ELSE best

\* StrategyBandit.select (lines 71-82).
select(bandit, exclude, samples) ==
    SelectLoop(bandit.arms, Len(bandit.arms), exclude, samples).strategy

\* The first arm, whatever the expected values are.
get_first(bandit) == bandit.arms[1].key

\* StrategyBandit.get_best (lines 84-93).
get_best(bandit) == BestOfFirst(bandit.arms, Len(bandit.arms)).strategy

\* StrategyBandit.to_dict and from_dict (lines 121-129): from_dict starts
\* from the five arms and stores each arm of the data.
RECURSIVE StoreAll(_, _)
StoreAll(dict, entries) ==
    IF entries = <<>> THEN dict
    ELSE StoreAll(Store(dict, Head(entries).key, Head(entries).value), Tail(entries))

StrategyBandit_to_dict(bandit) == [arms |-> bandit.arms]

StrategyBandit_from_dict(data) ==
    [arms |-> StoreAll(NewStrategyBandit.arms, data.arms)]

\* ---- layers 2, 4 and 5: contextual bandits ----

\* str(key) of a candidate key, an int or a float.
KeyStr(kind, key) == IF kind = "int" THEN IntStr(key) ELSE FloatStr(key)

\* int(s) or float(s) of a key string.
KeyParse(kind, s) == IF kind = "int" THEN ParseInt(s) ELSE ParseFloat(s)

\* to_dict of a table (lines 260-271, 514-517, 639-642): every candidate key
\* becomes str(key); the [total, count] lists are the lists of the table.
KeysToStr(table, kind) ==
    [i \in DOMAIN table |->
        [key |-> table[i].key,
         value |-> [j \in DOMAIN table[i].value |->
                      [key |-> KeyStr(kind, table[i].value[j].key),
                       value |-> table[i].value[j].value]]]]

\* Every key of a serialized table can be converted back.
KeysParse(table, kind) ==
    \A i \in DOMAIN table : \A j \in DOMAIN table[i].value :
        KeyParse(kind, table[i].value[j].key).ok

\* from_dict of a table (lines 279-284, 525-526, 650-651): every key string
\* becomes int(key) or float(key), for keys that convert to distinct
\* candidates.
KeysFromStr(table, kind) ==
    [i \in DOMAIN table |->
        [key |-> table[i].key,
         value |-> [j \in DOMAIN table[i].value |->
                      [key |-> KeyParse(kind, table[i].value[j].key).value,
                       value |-> table[i].value[j].value]]]]

\* DifficultyBandit.__init__ (lines 160-165).
NewDifficultyBandit ==
    [difficulty_table |-> <<>>, threshold_table |-> <<>>, retest_table |-> <<>>,
     total_updates |-> 0]

\* An update that leaves the threshold table alone.
DifficultyUpdateOneTable(bandit, ctx, difficulty, threshold, reward) ==
    [bandit EXCEPT
        !.total_updates = @ + 1,
        !.difficulty_table = Observe(@, ctx, difficulty, reward)]

\* DifficultyBandit.update (lines 232-249).
DifficultyUpdate(bandit, ctx, difficulty, threshold, reward) ==
    [bandit EXCEPT
        !.total_updates = @ + 1,
        !.difficulty_table = Observe(@, ctx, difficulty, reward),
        !.threshold_table = Observe(@, ctx, threshold, reward)]

\* DifficultyBandit.update_retest (lines 222-230): total_updates is not
\* touched.
RetestUpdate(bandit, ctx, multiplier, reward) ==
    [bandit EXCEPT !.retest_table = Observe(@, ctx, multiplier, reward)]

\* DifficultyBandit.to_dict (lines 258-273).
DifficultyBandit_to_dict(bandit) ==
    [difficulty_table |-> KeysToStr(bandit.difficulty_table, "int"),
     threshold_table |-> KeysToStr(bandit.threshold_table, "float"),
     retest_table |-> KeysToStr(bandit.retest_table, "float"),
     total_updates |-> bandit.total_updates]

\* DifficultyBandit.from_dict raises nothing on the data (lines 279-284).
DifficultyBandit_loads(data) ==
    /\ KeysParse(data.difficulty_table, "int")
    /\ KeysParse(data.threshold_table, "float")
    /\ KeysParse(data.retest_table, "float")

\* DifficultyBandit.from_dict (lines 275-285).
DifficultyBandit_from_dict(data) ==
    [difficulty_table |-> KeysFromStr(data.difficulty_table, "int"),
     threshold_table |-> KeysFromStr(data.threshold_table, "float"),
     retest_table |-> KeysFromStr(data.retest_table, "float"),
     total_updates |-> data.total_updates]

\* EngagementBandit.__init__ and SchedulerBandit.__init__ (lines 458-460,
\* 579-581).
NewProfileBandit == [profile_table |-> <<>>, total_updates |-> 0]

\* EngagementBandit.update and SchedulerBandit.update (lines 494-503,
\* 619-628).
ProfileUpdate(bandit, ctx, profile_idx, reward) ==
    [bandit EXCEPT
        !.total_updates = @ + 1,
        !.profile_table = Observe(@, ctx, profile_idx, reward)]

\* to_dict of the two profile bandits (lines 512-519, 637-644).
ProfileBandit_to_dict(bandit) ==
    [profile_table |-> KeysToStr(bandit.profile_table, "int"),
     total_updates |-> bandit.total_updates]

ProfileBandit_loads(data) == KeysParse(data.profile_table, "int")

\* from_dict of the two profile bandits (lines 521-527, 646-652).
ProfileBandit_from_dict(data) ==
    [profile_table |-> KeysFromStr(data.profile_table, "int"),
     total_updates |-> data.total_updates]

\* ---- the selections of layers 2, 4 and 5 ----

\* The loop of a selection over the first n candidates of a context (lines
\* 183-189, 198-204, 213-219, 484-490, 608-614): the candidate of the
\* strictly greatest average total / max(count, 1), the default while no
\* average exceeds -999.0.  Totals are in tenths.
\* The candidate of the greatest total, whatever its count.
RECURSIVE BestTotal(_, _, _)
BestTotal(actions, n, default) ==
    IF n = 0 THEN [key |-> default, total |-> -9990, count |-> 1]
    ELSE LET best == BestTotal(actions, n - 1, default)
         IN  IF actions[n].value[1] > best.total
             THEN [key |-> actions[n].key, total |-> actions[n].value[1], count |-> 1]
             ELSE best

RECURSIVE BestAverage(_, _, _)
BestAverage(actions, n, default) ==
    IF n = 0 THEN [key |-> default, total |-> -9990, count |-> 1]
    ELSE LET best == BestAverage(actions, n - 1, default)
             total == actions[n].value[1]
             count == Max(actions[n].value[2], 1)
         IN  IF total * best.count > best.total * count
             THEN [key |-> actions[n].key, total |-> total, count |-> count]
             ELSE best

\* A selection that has no default: a context without a table gives 0.
SelectFirst(table, ctx, default, explore, choice) ==
    IF explore THEN choice
    ELSE IF Lookup(table, ctx) = <<>> THEN 0
    ELSE BestAverage(Lookup(table, ctx), Len(Lookup(table, ctx)), default).key

\* A selection: the candidate drawn when the draw falls under epsilon
\* (explore), otherwise the default for a context without a table and the
\* best average for one with a table.
SelectFrom(table, ctx, default, explore, choice) ==
    IF explore THEN choice
    ELSE IF Lookup(table, ctx) = <<>> THEN default
    ELSE BestAverage(Lookup(table, ctx), Len(Lookup(table, ctx)), default).key

\* DifficultyBandit.select_difficulty, select_threshold and
\* select_retest_multiplier (lines 174-220); thresholds and multipliers in
\* hundredths.
select_difficulty(bandit, ctx, explore, choice) ==
    SelectFrom(bandit.difficulty_table, ctx, 2, explore, choice)

select_threshold(bandit, ctx, explore, choice) ==
    SelectFrom(bandit.threshold_table, ctx, 70, explore, choice)

select_retest_multiplier(bandit, ctx, explore, choice) ==
    SelectFrom(bandit.retest_table, ctx, 57, explore, choice)

\* The number of ENGAGEMENT_PROFILES and of SM2_PROFILES (lines 415-421,
\* 533-539).
ProfileCount == 5

\* EngagementBandit.select_profile (lines 474-493) and
\* SchedulerBandit.select_profile (lines 595-617), as the index of the
\* profile returned, counted from 0: a best index outside the list gives the
\* default profile.
select_profile(bandit, ctx, default, explore, choice) ==
    LET idx == SelectFrom(bandit.profile_table, ctx, default, explore, choice)
    IN  IF 0 <= idx /\ idx < ProfileCount THEN idx ELSE default

select_engagement_profile(bandit, ctx, explore, choice) ==
    select_profile(bandit, ctx, 1, explore, choice)

select_sm2_profile(bandit, ctx, explore, choice) ==
    select_profile(bandit, ctx, 0, explore, choice)

\* ---- layer 3: action Q-learner ----
QUnit == 1000000

\* ActionQLearner.__init__ (lines 319-324): alpha, gamma and epsilon in
\* hundredths.
NewActionQLearner ==
    [q_table |-> <<>>, alpha |-> 10, gamma |-> 90, epsilon |-> 15, total_updates |-> 0]

\* The least of the values of a non-empty dict of Q values.
MinQ(q_values) ==
    CHOOSE v \in {q_values[i].value : i \in DOMAIN q_values} :
        \A i \in DOMAIN q_values : q_values[i].value >= v

\* max(values) of a non-empty dict of Q values.
MaxQ(q_values) ==
    CHOOSE v \in {q_values[i].value : i \in DOMAIN q_values} :
        \A i \in DOMAIN q_values : q_values[i].value <= v

\* ActionQLearner.update (lines 361-375), reward in tenths.  The state and
\* the action are created before the next state is looked up.  The division
\* is exact for the first three updates of a learner.
ActionQUpdate(learner, state_key, action, reward, next_state_key) ==
    LET q_values == Lookup(learner.q_table, state_key)
        created == IF KeyIndex(q_values, action) = 0 THEN Store(q_values, action, 0)
                   ELSE q_values
        table == Store(learner.q_table, state_key, created)
        current_q == Lookup(created, action)
        next_q_values == Lookup(table, next_state_key)
        max_next_q == IF next_q_values = <<>> THEN 0 ELSE MaxQ(next_q_values)
        target == reward * (QUnit \div 10) * 10
                      + (learner.gamma \div 10) * max_next_q - 10 * current_q
        new_q == current_q + ((target \div 100) * learner.alpha) \div 10
    IN  [learner EXCEPT
            !.q_table = Store(table, state_key, Store(created, action, new_q)),
            !.total_updates = @ + 1]

\* ActionQLearner.to_dict and from_dict (lines 391-409): the Q-table is
\* handed over as it is.
ActionQLearner_to_dict(learner) ==
    [q_table |-> learner.q_table, total_updates |-> learner.total_updates,
     alpha |-> learner.alpha, gamma |-> learner.gamma, epsilon |-> learner.epsilon]

ActionQLearner_from_dict(data) ==
    [q_table |-> data.q_table, alpha |-> data.alpha, gamma |-> data.gamma,
     epsilon |-> data.epsilon, total_updates |-> data.total_updates]

\* QL_ACTIONS (line 17).
QL_ACTIONS == <<"teach", "practice", "test", "reteach", "skip_ahead", "ask_learner">>

\* _bucket_test_count and _bucket_fail_streak (lines 288-301).
bucket_test_count(count) ==
    IF count = 0 THEN "0" ELSE IF count <= 2 THEN "1-2" ELSE "3+"

bucket_fail_streak(streak) ==
    IF streak = 0 THEN "0" ELSE IF streak = 1 THEN "1" ELSE "2+"

\* ActionQLearner._state_key (lines 326-335) with fewer than two recent
\* scores and neutral engagement, for the statuses and buckets of the
\* specifications: the string the f-string builds.
StateKeyOf(concept_status, test_count, fail_streak) ==
    LET buckets == <<bucket_test_count(test_count), bucket_fail_streak(fail_streak)>>
    IN  CASE buckets = <<"1-2", "1">> /\ concept_status = "testing" ->
                 "testing|1-2|1|none|neutral"
          [] buckets = <<"0", "0">> /\ concept_status = "unknown" ->
                 "unknown|0|0|none|neutral"
          [] buckets = <<"0", "0">> /\ concept_status = "introduced" ->
                 "introduced|0|0|none|neutral"
          [] buckets = <<"0", "0">> /\ concept_status = "practicing" ->
                 "practicing|0|0|none|neutral"
          [] buckets = <<"0", "0">> /\ concept_status = "testing" ->
                 "testing|0|0|none|neutral"
          [] buckets = <<"0", "0">> /\ concept_status = "mastered" ->
                 "mastered|0|0|none|neutral"
          [] buckets = <<"0", "0">> /\ concept_status = "decayed" ->
                 "decayed|0|0|none|neutral"
          [] buckets = <<"0", "0">> /\ concept_status = "paused" ->
                 "paused|0|0|none|neutral"

\* Every action as the cold-start default.
AlwaysTeach(concept_status) == "teach"

\* defaults.get(concept_status, "teach") (lines 349-357).
StatusDefault(concept_status) ==
    CASE concept_status = "unknown" -> "teach"
      [] concept_status = "introduced" -> "practice"
      [] concept_status = "practicing" -> "test"
      [] concept_status = "testing" -> "test"
      [] concept_status = "mastered" -> "skip_ahead"
      [] concept_status = "decayed" -> "test"
      [] OTHER -> "teach"

\* max(q_values, key=q_values.get) over the first n entries (line 359): the
\* first action of the greatest value.
RECURSIVE ArgMaxQ(_, _)
ArgMaxQ(q_values, n) ==
    IF n = 1 THEN q_values[1]
    ELSE LET best == ArgMaxQ(q_values, n - 1)
         IN  IF q_values[n].value > best.value THEN q_values[n] ELSE best

\* ActionQLearner.select_action (lines 337-359): explore says the draw fell
\* under epsilon and choice is what random.choice gives then.
select_action(learner, concept_status, test_count, fail_streak, explore, choice) ==
    LET q_values == Lookup(learner.q_table,
                           StateKeyOf(concept_status, test_count, fail_streak))
    IN  IF explore THEN choice
        ELSE IF q_values = <<>> THEN StatusDefault(concept_status)
        ELSE ArgMaxQ(q_values, Len(q_values)).key

\* RLHyperConfig.for_experience (lines 41-48), in hundredths.
for_experience(concepts_mastered) ==
    IF concepts_mastered < 5 THEN [alpha |-> 20, gamma |-> 90, epsilon |-> 30]
    ELSE IF concepts_mastered < 20 THEN [alpha |-> 10, gamma |-> 90, epsilon |-> 15]
    ELSE [alpha |-> 5, gamma |-> 90, epsilon |-> 5]

\* ---- the engine ----

\* RLEngine.__init__ (lines 659-664).
NewRLEngine ==
    [strategy_bandit |-> NewStrategyBandit,
     difficulty_bandit |-> NewDifficultyBandit,
     action_q |-> NewActionQLearner,
     engagement_bandit |-> NewProfileBandit,
     scheduler_bandit |-> NewProfileBandit]

\* RLEngine.to_dict (lines 762-769).
RLEngine_to_dict(e) ==
    [strategy_bandit |-> StrategyBandit_to_dict(e.strategy_bandit),
     difficulty_bandit |-> DifficultyBandit_to_dict(e.difficulty_bandit),
     action_q |-> ActionQLearner_to_dict(e.action_q),
     engagement_bandit |-> ProfileBandit_to_dict(e.engagement_bandit),
     scheduler_bandit |-> ProfileBandit_to_dict(e.scheduler_bandit)]

ValueError == [error |-> "ValueError"]

\* RLEngine.from_dict (lines 771-784): a layer the dict names is read with
\* the layer's from_dict, a layer it does not name stays the fresh one; the
\* engine, or the ValueError a key conversion raises.
HasLayer(data, layer) == layer \in DOMAIN data

RLEngine_from_dict(data) ==
    IF /\ HasLayer(data, "difficulty_bandit") =>
              DifficultyBandit_loads(data.difficulty_bandit)
       /\ HasLayer(data, "engagement_bandit") =>
              ProfileBandit_loads(data.engagement_bandit)
       /\ HasLayer(data, "scheduler_bandit") =>
              ProfileBandit_loads(data.scheduler_bandit)
    THEN [strategy_bandit |->
              IF HasLayer(data, "strategy_bandit")
              THEN StrategyBandit_from_dict(data.strategy_bandit)
              ELSE NewStrategyBandit,
          difficulty_bandit |->
              IF HasLayer(data, "difficulty_bandit")
              THEN DifficultyBandit_from_dict(data.difficulty_bandit)
              ELSE NewDifficultyBandit,
          action_q |->
              IF HasLayer(data, "action_q")
              THEN ActionQLearner_from_dict(data.action_q)
              ELSE NewActionQLearner,
          engagement_bandit |->
              IF HasLayer(data, "engagement_bandit")
              THEN ProfileBandit_from_dict(data.engagement_bandit)
              ELSE NewProfileBandit,
          scheduler_bandit |->
              IF HasLayer(data, "scheduler_bandit")
              THEN ProfileBandit_from_dict(data.scheduler_bandit)
              ELSE NewProfileBandit]
    ELSE ValueError

\* learner.rl_policy of a new learner: the empty dict.
EmptyPolicy == [empty |-> TRUE]

\* get_rl_engine without its try (line 801 alone).
get_rl_engine_unguarded(policy) ==
    IF policy = EmptyPolicy THEN NewRLEngine ELSE RLEngine_from_dict(policy)

\* get_rl_engine (lines 798-804).
get_rl_engine(policy) ==
    IF policy = EmptyPolicy THEN NewRLEngine
    ELSE IF RLEngine_from_dict(policy) = ValueError THEN NewRLEngine
    ELSE RLEngine_from_dict(policy)

\* A table of the policy dict after the engine changed: the dict keeps the
\* contexts and candidates it was written with, and its [total, count] lists
\* are the lists of the engine's table, which the updates change in place.
SharedLists(written, table) ==
    [i \in DOMAIN written |->
        [key |-> written[i].key,
         value |-> [j \in DOMAIN written[i].value |->
                      [key |-> written[i].value[j].key,
                       value |-> table[i].value[j].value]]]]

\* learner.rl_policy once the engine it was written from, or read into, has
\* become e: to_dict and from_dict hand over the Q-table and the lists of
\* the tables themselves (lines 261-270, 280-284, 393, 407), copies of the
\* arms and of the counters.
SharedPolicy(policy, e) ==
    IF policy = EmptyPolicy THEN policy
    ELSE [policy EXCEPT
            !.difficulty_bandit.difficulty_table =
                SharedLists(@, e.difficulty_bandit.difficulty_table),
            !.difficulty_bandit.threshold_table =
                SharedLists(@, e.difficulty_bandit.threshold_table),
            !.difficulty_bandit.retest_table =
                SharedLists(@, e.difficulty_bandit.retest_table),
            !.action_q.q_table = e.action_q.q_table,
            !.engagement_bandit.profile_table =
                SharedLists(@, e.engagement_bandit.profile_table),
            !.scheduler_bandit.profile_table =
                SharedLists(@, e.scheduler_bandit.profile_table)]

(***************************************************************************)
(* Operations of the engine                                                *)
(***************************************************************************)
ENInit ==
    /\ engine = NewRLEngine
    /\ rl_policy = EmptyPolicy
    /\ engine_steps = 0
    /\ rl_call = NoCall

\* An update leaves the engine as e.
EngineBecomes(op, e) ==
    /\ engine' = e
    /\ rl_policy' = SharedPolicy(rl_policy, e)
    /\ engine_steps' = engine_steps + 1
    /\ rl_call' = [op |-> op]
    /\ UNCHANGED en_frame

\* RLEngine.update_strategy (lines 674-675).
UpdateStrategy(Names, S) ==
    \E strategy \in Names, score \in S :
        EngineBecomes("update_strategy",
            [engine EXCEPT !.strategy_bandit = StrategyUpdate(@, strategy, score)])

\* RLEngine.update_difficulty (lines 693-700) for a learner of velocity V.
UpdateDifficulty(V, D, T, R) ==
    \E velocity \in V, difficulty \in D, threshold \in T, reward \in R :
        EngineBecomes("update_difficulty",
            [engine EXCEPT !.difficulty_bandit =
                DifficultyUpdate(@, DifficultyContext(velocity, 0, 0),
                                 difficulty, threshold, reward)])

\* DifficultyBandit.update_retest (lines 222-230).
UpdateRetest(V, M, R) ==
    \E velocity \in V, multiplier \in M, reward \in R :
        EngineBecomes("update_retest",
            [engine EXCEPT !.difficulty_bandit =
                RetestUpdate(@, DifficultyContext(velocity, 0, 0), multiplier, reward)])

\* RLEngine.update_action (lines 724-726).
UpdateAction(K, A, R) ==
    \E state_key \in K, action \in A, reward \in R, next_state_key \in K :
        EngineBecomes("update_action",
            [engine EXCEPT !.action_q =
                ActionQUpdate(@, state_key, action, reward, next_state_key)])

\* EngagementBandit.update (lines 494-503).
UpdateEngagement(Minutes, P, R) ==
    \E minutes \in Minutes, profile_idx \in P, reward \in R :
        EngineBecomes("update_engagement",
            [engine EXCEPT !.engagement_bandit =
                ProfileUpdate(@, EngagementContext(minutes), profile_idx, reward)])

\* SchedulerBandit.update (lines 619-628).
UpdateScheduler(Totals, P, R) ==
    \E total_concepts \in Totals, profile_idx \in P, reward \in R :
        EngineBecomes("update_scheduler",
            [engine EXCEPT !.scheduler_bandit =
                ProfileUpdate(@, SchedulerContext(0, total_concepts), profile_idx, reward)])

\* RLEngine.select_strategy(exclude) (lines 668-669) as TeacherAgent calls it
\* (teacher.py lines 21-30) with the strategies that scored below 0.3 on the
\* concept, any of Names; random.betavariate gives each arm a sample of
\* Samples.
SelectStrategy(Names, Samples) ==
    \E exclude \in SUBSET Names,
       samples \in [1 .. Len(engine.strategy_bandit.arms) -> Samples] :
        /\ rl_call' = [op |-> "select_strategy", exclude |-> exclude,
                       ret |-> select(engine.strategy_bandit, exclude, samples)]
        /\ UNCHANGED <<engine, rl_policy, engine_steps, en_frame>>

\* engine.strategy_bandit.get_exclusion_set() (teacher.py line 22): a query.
GetExclusionSet ==
    \E rounded \in SUBSET AtThreshold(engine.strategy_bandit) :
        /\ rl_call' = [op |-> "get_exclusion_set",
                       ret |-> get_exclusion_set(engine.strategy_bandit, rounded)]
        /\ UNCHANGED <<engine, rl_policy, engine_steps, en_frame>>

\* RLEngine.get_best_strategy (lines 671-672): a query.
GetBestStrategy ==
    /\ rl_call' = [op |-> "get_best_strategy", ret |-> get_best(engine.strategy_bandit)]
    /\ UNCHANGED <<engine, rl_policy, engine_steps, en_frame>>

\* A selection that creates the table of its context in the difficulty
\* table, as table[ctx] on a dict with a default would.
EngineSelectsCreating(op, ctx, known, explore, ret) ==
    /\ rl_call' = [op |-> op, ctx |-> ctx, known |-> known, explore |-> explore,
                   ret |-> ret]
    /\ engine' = [engine EXCEPT !.difficulty_bandit.difficulty_table =
                     IF KeyIndex(@, ctx) = 0 THEN Store(@, ctx, <<>>) ELSE @]
    /\ UNCHANGED <<rl_policy, engine_steps, en_frame>>

\* A selection is a query: the engine is left alone.  The call is recorded
\* with the context, whether the draw made it explore, and the result.
EngineSelects(op, ctx, known, explore, ret) ==
    /\ rl_call' = [op |-> op, ctx |-> ctx, known |-> known, explore |-> explore,
                   ret |-> ret]
    /\ UNCHANGED <<engine, rl_policy, engine_steps, en_frame>>

\* The three selections of the difficulty bandit for a learner of a velocity
\* of V: the draw falls under epsilon or not, and random.choice gives any
\* candidate.
SelectDifficulty(V) ==
    \E velocity \in V, explore \in BOOLEAN, choice \in Range(DIFFICULTY_LEVELS) :
        LET ctx == DifficultyContext(velocity, 0, 0)
        IN  EngineSelects("select_difficulty", ctx,
                Lookup(engine.difficulty_bandit.difficulty_table, ctx) # <<>>,
                explore,
                select_difficulty(engine.difficulty_bandit, ctx, explore, choice))

SelectThreshold(V) ==
    \E velocity \in V, explore \in BOOLEAN, choice \in Range(MASTERY_THRESHOLDS) :
        LET ctx == DifficultyContext(velocity, 0, 0)
        IN  EngineSelects("select_threshold", ctx,
                Lookup(engine.difficulty_bandit.threshold_table, ctx) # <<>>,
                explore,
                select_threshold(engine.difficulty_bandit, ctx, explore, choice))

SelectRetestMultiplier(V) ==
    \E velocity \in V, explore \in BOOLEAN, choice \in Range(RETEST_MULTIPLIERS) :
        LET ctx == DifficultyContext(velocity, 0, 0)
        IN  EngineSelects("select_retest_multiplier", ctx,
                Lookup(engine.difficulty_bandit.retest_table, ctx) # <<>>,
                explore,
                select_retest_multiplier(engine.difficulty_bandit, ctx, explore, choice))

\* The selections of the two profile bandits; randrange gives any index.
SelectEngagementProfile(Minutes) ==
    \E minutes \in Minutes, explore \in BOOLEAN, choice \in 0 .. ProfileCount - 1 :
        LET ctx == EngagementContext(minutes)
        IN  EngineSelects("select_engagement_profile", ctx,
                Lookup(engine.engagement_bandit.profile_table, ctx) # <<>>,
                explore,
                select_engagement_profile(engine.engagement_bandit, ctx, explore, choice))

SelectSm2Profile(Totals) ==
    \E total_concepts \in Totals, explore \in BOOLEAN, choice \in 0 .. ProfileCount - 1 :
        LET ctx == SchedulerContext(0, total_concepts)
        IN  EngineSelects("select_sm2_profile", ctx,
                Lookup(engine.scheduler_bandit.profile_table, ctx) # <<>>,
                explore,
                select_sm2_profile(engine.scheduler_bandit, ctx, explore, choice))

\* RLEngine.select_next_action (lines 704-712) for a concept of a status
\* and a number of tests taken and failed given by a pair of Cases.
SelectNextAction(Cases) ==
    \E case \in Cases, explore \in BOOLEAN, choice \in Range(QL_ACTIONS) :
        /\ rl_call' = [op |-> "select_next_action", status |-> case[1],
                       ctx |-> StateKeyOf(case[1], case[2], case[2]),
                       explore |-> explore,
                       ret |-> select_action(engine.action_q, case[1], case[2],
                                             case[2], explore, choice)]
        /\ UNCHANGED <<engine, rl_policy, engine_steps, en_frame>>

\* learner.rl_policy = engine.to_dict() (orchestrator.py line 684).
SavePolicy ==
    /\ rl_policy' = RLEngine_to_dict(engine)
    /\ rl_call' = [op |-> "to_dict"]
    /\ UNCHANGED <<engine, engine_steps, en_frame>>

\* learner.rl_policy = engine.to_dict() (orchestrator.py line 684) and the
\* engine the next call reads out of it (line 651): the engine becomes
\* from_dict(to_dict(engine)).
RestorePolicy ==
    /\ rl_policy' = RLEngine_to_dict(engine)
    /\ engine' = get_rl_engine(RLEngine_to_dict(engine))
    /\ rl_call' = [op |-> "restore"]
    /\ UNCHANGED <<engine_steps, en_frame>>

\* get_rl_engine(learner) (lines 798-804) for a learner who has mastered a
\* number of concepts of Mastered: the function reads learner.rl_policy and
\* nothing else of the learner.
GetEngine(Mastered) ==
    \E concepts_mastered \in Mastered :
        /\ engine' = get_rl_engine(rl_policy)
        /\ rl_call' = [op |-> "get_rl_engine", concepts_mastered |-> concepts_mastered,
                       stored |-> rl_policy # EmptyPolicy]
        /\ UNCHANGED <<rl_policy, engine_steps, en_frame>>

\* engine = get_rl_engine(learner) (orchestrator.py line 651).
LoadPolicy ==
    /\ engine' = get_rl_engine(rl_policy)
    /\ rl_call' = [op |-> "get_rl_engine"]
    /\ UNCHANGED <<rl_policy, engine_steps, en_frame>>

(***************************************************************************)
(* The learner store and the requests (backend/services/learner_store.py,  *)
(* backend/routes/session.py, backend/agents/orchestrator.py)              *)
(*                                                                         *)
(* Every request reads its own LearnerState out of the stored JSON, works  *)
(* on it across the awaits of the handler and writes the whole record      *)
(* back.  The handlers run as coroutines of one event loop: a step below   *)
(* is the code between two awaits.                                         *)
(***************************************************************************)
LearnerIds == {1, 2}
\* At most MaxRequests requests are in flight at a time.
MaxRequests == 2
RequestIds == 1..MaxRequests

\* LearnerState as create_learner stores it (learner.py lines 77-78).
NewLearner == [rl_policy |-> EmptyPolicy, review_queue |-> <<>>]

\* A request that has not read its learner yet.
IdleRequest == [pc |-> "idle"]

\* The learner whose results are compared with those of a run of its own.
LearnerA == 1

LSInit ==
    /\ learners = [lid \in LearnerIds |-> NewLearner]
    /\ requests = [r \in RequestIds |-> IdleRequest]
    /\ rl_rng = 0
    /\ alone = [ret |-> 0, rl_rng |-> 0, learner |-> NewLearner]

\* The reward _tool_evaluate computes when the score reaches the mastery
\* threshold (orchestrator.py line 662), in tenths; no misconception resolved.
REWARD_MASTERY == 100
REWARD_TEST_PASS_MULT == 5
MasteryReward(score) == REWARD_MASTERY + REWARD_TEST_PASS_MULT * score

\* The action state key of a request (get_action_state_key, lines 714-722):
\* one key, the concept's status and counts being those of the test.
RequestStateKey == <<"t", "e", "s", "t">>

\* The mastery branch of _tool_evaluate between its awaits (lines 651-684) on
\* the request's LearnerState: schedule_review with the default profile and
\* no misconception, the three engine updates, and the policy written back
\* into the LearnerState.
Evaluated(learner, cid, strategy, score, difficulty, threshold, t) ==
    LET loaded == get_rl_engine(learner.rl_policy)
        item == SM2Step(LoadedItem(learner.review_queue, cid, t),
                        SM2_PROFILES[DEFAULT_SM2_PROFILE], score, 0, t)
        reward == MasteryReward(score)
        updated ==
            [loaded EXCEPT
                !.strategy_bandit = StrategyUpdate(@, strategy, score),
                !.difficulty_bandit =
                    DifficultyUpdate(@, DifficultyContext(10, 0, 0),
                                     difficulty, threshold, reward),
                !.action_q = ActionQUpdate(@, RequestStateKey, "test", reward,
                                           RequestStateKey)]
    IN  [rl_policy |-> RLEngine_to_dict(updated),
         review_queue |-> SavedQueue(learner.review_queue, item)]

\* respond (session.py lines 60-62): learner_store.get_learner parses the
\* stored JSON into a LearnerState of the request's own (lines 89-99).
GetLearner(r) ==
    /\ requests[r].pc = "idle"
    /\ \E lid \in LearnerIds :
          requests' = [requests EXCEPT ![r] =
              [pc |-> "loaded", learner_id |-> lid, learner |-> learners[lid]]]
    /\ UNCHANGED <<learners, rl_rng, alone, ls_frame>>

\* _tool_evaluate once examiner_agent.evaluate_response has answered, up to
\* the await of update_learner (orchestrator.py lines 598-685).
ToolEvaluate(r, C, Names, S) ==
    /\ requests[r].pc = "loaded"
    /\ \E cid \in C, strategy \in Names, score \in S :
          requests' = [requests EXCEPT ![r] =
              [pc |-> "evaluated", learner_id |-> requests[r].learner_id,
               concept_id |-> cid,
               learner |-> Evaluated(requests[r].learner, cid, strategy, score,
                                     2, 70, now)]]
    /\ UNCHANGED <<learners, rl_rng, alone, ls_frame>>

\* learner_store.update_learner (lines 117-127): the whole record is written
\* over the stored one.
UpdateLearner(r) ==
    /\ requests[r].pc = "evaluated"
    /\ learners' = [learners EXCEPT ![requests[r].learner_id] = requests[r].learner]
    /\ requests' = [requests EXCEPT ![r] =
          [pc |-> "done", learner_id |-> requests[r].learner_id,
           concept_id |-> requests[r].concept_id]]
    /\ UNCHANGED <<rl_rng, alone, ls_frame>>

\* ---- the mastery of a concept ----

\* A LearnerState with its concept_states (learner.py): no concept met yet.
NewMasteryLearner ==
    [rl_policy |-> EmptyPolicy, review_queue |-> <<>>, concept_states |-> <<>>]

\* cs.status of a concept, "none" when the learner has no state for it.
StatusOf(learner, cid) ==
    IF KeyIndex(learner.concept_states, cid) = 0 THEN "none"
    ELSE Lookup(learner.concept_states, cid)

\* _tool_practice up to the await of update_learner (orchestrator.py lines
\* 845-855): the state of the concept is created if missing and its status
\* becomes "practicing".
ToolPractice(r, C) ==
    /\ requests[r].pc = "loaded"
    /\ \E cid \in C :
          requests' = [requests EXCEPT ![r] =
              [pc |-> "evaluated", learner_id |-> requests[r].learner_id,
               concept_id |-> cid,
               learner |-> [requests[r].learner EXCEPT
                               !.concept_states = Store(@, cid, "practicing")]]]
    /\ UNCHANGED <<learners, rl_rng, alone, ls_frame>>

\* _tool_evaluate with a score that reaches the mastery threshold, up to the
\* await of update_learner in _handle_mastery (lines 603-606, 656-657,
\* 699-709): the state is created if missing, cs.status = "mastered".
HandleMastery(r, C, S) ==
    /\ requests[r].pc = "loaded"
    /\ \E cid \in C, score \in S :
          requests' = [requests EXCEPT ![r] =
              [pc |-> "handle_mastery", learner_id |-> requests[r].learner_id,
               concept_id |-> cid, score |-> score,
               learner |-> [requests[r].learner EXCEPT
                               !.concept_states = Store(@, cid, "mastered")]]]
    /\ UNCHANGED <<learners, rl_rng, alone, ls_frame>>

\* await learner_store.update_learner(learner) of _handle_mastery (line 709).
HandleMasteryUpdate(r) ==
    /\ requests[r].pc = "handle_mastery"
    /\ learners' = [learners EXCEPT ![requests[r].learner_id] = requests[r].learner]
    /\ requests' = [requests EXCEPT ![r].pc = "handled"]
    /\ UNCHANGED <<rl_rng, alone, ls_frame>>

\* _tool_evaluate once _handle_mastery has returned, up to the await of
\* update_learner (lines 660-684): schedule_review, the engine updates and
\* the policy written back into the LearnerState.
EvaluateMastered(r, Names) ==
    /\ requests[r].pc = "handled"
    /\ \E strategy \in Names :
          LET evaluated == Evaluated(requests[r].learner, requests[r].concept_id,
                                     strategy, requests[r].score, 2, 70, now)
          IN  requests' = [requests EXCEPT ![r] =
                  [pc |-> "evaluated", learner_id |-> requests[r].learner_id,
                   concept_id |-> requests[r].concept_id,
                   learner |-> [rl_policy |-> evaluated.rl_policy,
                                review_queue |-> evaluated.review_queue,
                                concept_states |-> requests[r].learner.concept_states]]]
    /\ UNCHANGED <<learners, rl_rng, alone, ls_frame>>

\* _tool_mark_mastered up to the await of update_learner (lines 880-892):
\* cs.status = "mastered" when the learner has a state for the concept.
ToolMarkMastered(r, C) ==
    /\ requests[r].pc = "loaded"
    /\ \E cid \in C :
          requests' = [requests EXCEPT ![r] =
              [pc |-> "evaluated", learner_id |-> requests[r].learner_id,
               concept_id |-> cid,
               learner |-> IF StatusOf(requests[r].learner, cid) = "none"
                           THEN requests[r].learner
                           ELSE [requests[r].learner EXCEPT
                                   !.concept_states = Store(@, cid, "mastered")]]]
    /\ UNCHANGED <<learners, rl_rng, alone, ls_frame>>

\* ---- the generator the selections share ----

\* _rl_rng = random.Random(42) (rl_engine.py line 10): the upper 16 bits of
\* the first 32-bit words the generator yields.
RngWords == <<
    41905, 7296, 1639, 48598, 18024, 16049, 14628, 9144,
    48265, 6717, 44348, 48540, 58469, 35741, 5697, 38698,
    27651, 2082, 1952, 6140, 14328, 15247, 33118, 39453,
    1739, 36781, 13031, 46925, 42590, 45962, 35713, 27493 >>

RngWord(i) == IF i <= Len(RngWords) THEN RngWords[i] ELSE 0

\* _rl_rng.random() from position pos: two words are taken and the first
\* gives the leading bits of the value, here in millionths.
RngRandom(pos) ==
    [value |-> (RngWord(pos + 1) * 15625) \div 1024, pos |-> pos + 2]

\* n.bit_length().
RECURSIVE BitLength(_)
BitLength(n) == IF n = 0 THEN 0 ELSE 1 + BitLength(n \div 2)

\* _rl_rng.choice and randrange(n) from position pos: the leading
\* n.bit_length() bits of a word, the next word while they are not below n.
RECURSIVE RngBelow(_, _)
RngBelow(pos, n) ==
    LET r == RngWord(pos + 1) \div (2 ^ (16 - BitLength(n)))
    IN  IF r < n \/ pos >= Len(RngWords) THEN [value |-> r, pos |-> pos + 1]
        ELSE RngBelow(pos + 1, n)

\* An epsilon that keeps falling after 200 updates.
EpsilonUnfloored(total_updates) == 200000 - total_updates * 750

\* The epsilon of the difficulty, the engagement and the scheduler bandit
\* (lines 167-169, 462-464, 583-585), in millionths.
Epsilon(total_updates) == Max(50000, 200000 - total_updates * 750)

\* bandit.epsilon read on the bandit of a layer of the engine (lines 176,
\* 191, 206, 476, 600): a query.
ReadEpsilon(layer) ==
    /\ rl_call' = [op |-> "epsilon", layer |-> layer,
                   total_updates |-> engine[layer].total_updates,
                   ret |-> Epsilon(engine[layer].total_updates)]
    /\ UNCHANGED <<engine, rl_policy, engine_steps, en_frame>>

\* ---- the operations for one learner ----

\* RLEngine.select_retest_multiplier(learner, concept_id) (lines 730-735,
\* 206-220) on a learner record and the generator at position pos: the
\* multiplier returned, the position the generator is left at, the record.
LearnerRetest(learner, pos) ==
    LET bandit == get_rl_engine(learner.rl_policy).difficulty_bandit
        draw == RngRandom(pos)
        pick == RngBelow(draw.pos, Len(RETEST_MULTIPLIERS))
        explore == draw.value < Epsilon(bandit.total_updates)
    IN  [ret |-> select_retest_multiplier(bandit, DifficultyContext(10, 0, 0),
                     explore, RETEST_MULTIPLIERS[pick.value + 1]),
         rl_rng |-> IF explore THEN pick.pos ELSE draw.pos,
         learner |-> learner]

\* schedule_review(learner, concept_id, score) (review_scheduler.py lines
\* 61-115) with the profile of _get_sm2_profile (lines 52-58, rl_engine.py
\* lines 746-758, 595-617); the scheduler bandit has no table here, so the
\* context does not matter.  The index of the profile is returned.
LearnerReview(learner, cid, score, t, pos) ==
    LET bandit == get_rl_engine(learner.rl_policy).scheduler_bandit
        draw == RngRandom(pos)
        pick == RngBelow(draw.pos, Len(SM2_PROFILES))
        explore == draw.value < Epsilon(bandit.total_updates)
        idx == select_sm2_profile(bandit, SchedulerContext(0, 0), explore, pick.value)
        item == SM2Step(LoadedItem(learner.review_queue, cid, t),
                        SM2_PROFILES[idx + 1], score, 0, t)
    IN  [ret |-> idx,
         rl_rng |-> IF explore THEN pick.pos ELSE draw.pos,
         learner |-> [learner EXCEPT !.review_queue = SavedQueue(@, item)]]

\* RLEngine.update_difficulty (lines 700-705) and the policy written back
\* (orchestrator.py line 684): no draw.
LearnerUpdate(learner, difficulty, reward, pos) ==
    LET loaded == get_rl_engine(learner.rl_policy)
        updated == [loaded EXCEPT !.difficulty_bandit =
                       DifficultyUpdate(@, DifficultyContext(10, 0, 0),
                                        difficulty, 70, reward)]
    IN  [ret |-> 0, rl_rng |-> pos,
         learner |-> [learner EXCEPT !.rl_policy = RLEngine_to_dict(updated)]]

\* An operation for learner lid has run: real is its outcome on the stored
\* record and the shared generator, single its outcome on the record and the
\* generator of learner 1 acting alone.
Performed(lid, op, real, single) ==
    /\ real.rl_rng <= Len(RngWords)
    /\ learners' = [learners EXCEPT ![lid] = real.learner]
    /\ rl_rng' = real.rl_rng
    /\ rl_call' = [op |-> op, learner_id |-> lid, ret |-> real.ret]
    /\ alone' = IF lid = LearnerA THEN single ELSE alone
    /\ engine_steps' = engine_steps + 1
    /\ UNCHANGED <<requests, engine, rl_policy, kg_vars, rs_vars>>

SelectsRetest(lid) ==
    Performed(lid, "select_retest_multiplier",
              LearnerRetest(learners[lid], rl_rng),
              LearnerRetest(alone.learner, alone.rl_rng))

SchedulesReview(lid, C, S) ==
    \E cid \in C, score \in S :
        Performed(lid, "schedule_review",
                  LearnerReview(learners[lid], cid, score, now, rl_rng),
                  LearnerReview(alone.learner, cid, score, now, alone.rl_rng))

UpdatesDifficulty(lid, D, R) ==
    \E difficulty \in D, reward \in R :
        Performed(lid, "update_difficulty",
                  LearnerUpdate(learners[lid], difficulty, reward, rl_rng),
                  LearnerUpdate(alone.learner, difficulty, reward, alone.rl_rng))

(***************************************************************************)
(* Specification of the path scheduler                                     *)
(***************************************************************************)
GraphInit == KGInit /\ RSInit /\ ENInit /\ LSInit

SpecGraph == GraphInit /\ [][KGNext]_vars

(***************************************************************************)
(* Specification of SM-2 scheduling: reviews of one concept                *)
(***************************************************************************)
MaxReviews == 2
Scores == {0, 5, 6, 10}
MisconCounts == {0, 4}
Profiles == DOMAIN SM2_PROFILES

\* The queue after two reviews of concept 1 with score 0.8 under the default
\* profile at time 0: easiness factor 2.5, two repetitions, six days.
SeededQueue ==
    <<[concept_id |-> 1, easiness_factor |-> (5 * EFUnit) \div 2,
       repetition_count |-> 2, interval_days |-> 6 * DayTicks,
       next_review |-> 6 * DayTicks, last_score |-> 8,
       misconception_count |-> 0]>>

ReviewInit ==
    /\ KGInit
    /\ review_queue \in {<<>>, SeededQueue}
    /\ now = 0
    /\ reviews_done = 0
    /\ advances_done = 0
    /\ rs_call = NoCall
    /\ ENInit
    /\ LSInit

Review ==
    /\ reviews_done < MaxReviews
    /\ ScheduleReview({1}, Scores, Profiles, MisconCounts)

ReviewNext == Review

SpecReview == ReviewInit /\ [][ReviewNext]_vars

(***************************************************************************)
(* Specification of the review queue: reviews of two concepts under the    *)
(* default profile, the clock, and the query for the due reviews           *)
(***************************************************************************)
MaxQueueReviews == 3
MaxAdvances == 2
MaxLimit == 2
QueueConcepts == {1, 2}
QueueScores == {5, 10}

\* The time between two calls: a few minutes, or a day.
TimeSteps == {DayTicks \div 500, DayTicks}

QueueInit == KGInit /\ RSInit /\ ENInit /\ LSInit

QueueReview ==
    /\ reviews_done < MaxQueueReviews
    /\ ScheduleReview(QueueConcepts, QueueScores, {DEFAULT_SM2_PROFILE}, {0})

QueueAdvance ==
    /\ advances_done < MaxAdvances
    /\ Advance(TimeSteps)

QueueDue == GetDueReviews(1 .. MaxLimit)

QueueNext == QueueReview \/ QueueAdvance \/ QueueDue

SpecQueue == QueueInit /\ [][QueueNext]_vars

(***************************************************************************)
(* Specification of strategy convergence: one arm only ever scores 1.0,    *)
(* the other arms that are updated only ever score 0.0                     *)
(***************************************************************************)
MaxUpdates == 30
MaxFailures == 1
StrategyNames == Range(ALL_STRATEGIES) \cup {"custom"}

\* alpha and beta of an arm, those of a new arm if the bandit has none.
ArmOf(bandit, strategy) ==
    IF KeyIndex(bandit.arms, strategy) = 0 THEN <<10, 10>>
    ELSE Lookup(bandit.arms, strategy)

ConvergenceInit == KGInit /\ RSInit /\ ENInit /\ LSInit

\* A score of 1.0 for an arm, no other arm having ever scored 1.0 and the arm
\* itself never 0.0.
ArmSucceeds ==
    \E s \in StrategyNames :
        /\ engine_steps < MaxUpdates
        /\ ArmOf(engine.strategy_bandit, s)[2] = 10
        /\ \A t \in StrategyNames \ {s} : ArmOf(engine.strategy_bandit, t)[1] = 10
        /\ UpdateStrategy({s}, {10})

\* A score of 0.0 for an arm that never scored 1.0.
ArmFails ==
    \E s \in StrategyNames :
        /\ engine_steps < MaxUpdates
        /\ ArmOf(engine.strategy_bandit, s)[1] = 10
        /\ ArmOf(engine.strategy_bandit, s)[2] < 10 + 10 * MaxFailures
        /\ UpdateStrategy({s}, {0})

ConvergenceNext == ArmSucceeds \/ ArmFails

SpecConvergence == ConvergenceInit /\ [][ConvergenceNext]_vars

(***************************************************************************)
(* Specification of the engine: updates of the five layers, the policy     *)
(* written to and read from the learner, and reviews of one concept        *)
(***************************************************************************)
MaxEngineSteps == 3
MaxQUpdates == 2
EngineStrategies == {"analogy", "custom"}
EngineScores == {3, 10}
EngineVelocities == {10}
DifficultyInputs == {2, 10}
ThresholdInputs == {55, 70}
RetestInputs == {50, 57}
Rewards == {-10, 130}
BanditRewards == {130}
StateKeys == {"unknown|0|0|none|neutral", "testing|1-2|1|none|neutral"}
ActionInputs == {"test"}
EngagementMinutes == {10}
SchedulerTotals == {0}
ProfileInputs == {1, 4}
EngineReviewScores == {5, 10}

EngineInit == KGInit /\ RSInit /\ ENInit /\ LSInit

StepsLeft == engine_steps + reviews_done < MaxEngineSteps

EngineStrategy == StepsLeft /\ UpdateStrategy(EngineStrategies, EngineScores)

EngineDifficulty ==
    /\ StepsLeft
    /\ UpdateDifficulty(EngineVelocities, DifficultyInputs, ThresholdInputs, BanditRewards)

EngineRetest == StepsLeft /\ UpdateRetest(EngineVelocities, RetestInputs, BanditRewards)

EngineAction ==
    /\ StepsLeft
    /\ engine.action_q.total_updates < MaxQUpdates
    /\ UpdateAction(StateKeys, ActionInputs, Rewards)

EngineEngagement ==
    StepsLeft /\ UpdateEngagement(EngagementMinutes, ProfileInputs, BanditRewards)

EngineScheduler ==
    StepsLeft /\ UpdateScheduler(SchedulerTotals, ProfileInputs, BanditRewards)

EngineReview ==
    StepsLeft /\ ScheduleReview({1}, EngineReviewScores, {Len(SM2_PROFILES)}, {0})

EngineNext ==
    \/ EngineStrategy \/ EngineDifficulty \/ EngineRetest \/ EngineAction
    \/ EngineEngagement \/ EngineScheduler \/ EngineReview
    \/ SavePolicy \/ LoadPolicy

SpecEngine == EngineInit /\ [][EngineNext]_vars

(***************************************************************************)
(* Specification of loading a stored policy: the record of a learner holds *)
(* any policy dict, written by this version of the engine or not; the      *)
(* engine is read out of it and written back.                              *)
(***************************************************************************)
LayerNames ==
    {"strategy_bandit", "difficulty_bandit", "action_q", "engagement_bandit",
     "scheduler_bandit"}

\* Candidate key strings of a stored table: the ones str writes, and ones
\* int or float reject.
StoredDifficultyKeys == {<<"2">>, <<"2", ".", "0">>}
StoredThresholdKeys == {<<"0", ".", "7">>, <<"x">>}
StoredProfileKeys == {<<"1">>, <<"o", "n", "e">>}

\* A stored table of one context and one candidate.
StoredTable(ctx, key) ==
    <<[key |-> ctx, value |-> <<[key |-> key, value |-> <<130, 1>>]>>]>>

StoredLayer(layer, dk, tk, pk) ==
    CASE layer = "strategy_bandit" ->
            [arms |-> <<[key |-> "analogy", value |-> <<20, 10>>]>>]
      [] layer = "difficulty_bandit" ->
            [difficulty_table |-> StoredTable(DifficultyContext(10, 0, 0), dk),
             threshold_table |-> StoredTable(DifficultyContext(10, 0, 0), tk),
             retest_table |-> <<>>, total_updates |-> 1]
      [] layer = "action_q" ->
            [ActionQLearner_to_dict(NewActionQLearner) EXCEPT !.total_updates = 1]
      [] layer = "engagement_bandit" ->
            [profile_table |-> StoredTable(EngagementContext(10), pk),
             total_updates |-> 1]
      [] layer = "scheduler_bandit" ->
            [profile_table |-> <<>>, total_updates |-> 1]

StoredPolicies ==
    {EmptyPolicy} \cup
    {[layer \in present |-> StoredLayer(layer, dk, tk, pk)] :
        present \in SUBSET LayerNames \ {{}}, dk \in StoredDifficultyKeys,
        tk \in StoredThresholdKeys, pk \in StoredProfileKeys}

PolicyInit ==
    /\ KGInit /\ RSInit /\ LSInit
    /\ engine = NewRLEngine
    /\ rl_policy \in StoredPolicies
    /\ engine_steps = 0
    /\ rl_call = NoCall

PolicyNext == LoadPolicy \/ SavePolicy

SpecPolicy == PolicyInit /\ [][PolicyNext]_vars

(***************************************************************************)
(* Specification of the lookups: a loaded graph of at most MaxLookupEdges  *)
(* prerequisite entries and transfer edges over the ids of LookupIds, a    *)
(* review queue, and the queries by id.  The ids outside the store are     *)
(* unknown; an entry or an edge may name one.                              *)
(***************************************************************************)
MaxLookupEdges == 1
LookupIds == {1, 2}

LookupGraphs ==
    {cs \in UNION {[D -> ConceptValues] : D \in SUBSET LookupIds} :
        PrereqEntries(cs) + TransferEdges(cs) <= MaxLookupEdges}

LookupInit ==
    /\ concepts \in LookupGraphs
    /\ prerequisite_cache = <<>>
    /\ kg_call = NoCall
    /\ review_queue \in {<<>>, SeededQueue}
    /\ now = 0
    /\ reviews_done = 0
    /\ advances_done = 0
    /\ rs_call = NoCall
    /\ ENInit
    /\ LSInit

LookupRetention == GetRetentionCurve(ConceptIds)

LookupNext == GetConcept \/ GetPrerequisites \/ GetTransferEdge \/ LookupRetention

SpecLookups == LookupInit /\ [][LookupNext]_vars

(***************************************************************************)
(* Specification of the queries on empty inputs: a loaded graph, a review  *)
(* queue that is empty or holds one item, an engine that has taken in at   *)
(* most MaxObservations observations, and the path query, the due reviews  *)
(* and the five selections.                                                *)
(***************************************************************************)
MaxObservations == 1
DefaultsGraphs ==
    {<<>>, [c \in {1, 2} |-> [prerequisites |-> IF c = 2 THEN <<1>> ELSE <<>>,
                             transfers_to |-> {}]]}
DefaultsVelocities == {5, 10}
DefaultsMinutes == {10, 30}
DefaultsTotals == {0, 4}

DefaultsInit ==
    /\ concepts \in DefaultsGraphs
    /\ prerequisite_cache = <<>>
    /\ kg_call = NoCall
    /\ review_queue \in {<<>>, SeededQueue}
    /\ now = 0
    /\ reviews_done = 0
    /\ advances_done = 0
    /\ rs_call = NoCall
    /\ ENInit
    /\ LSInit

DefaultsPath == PathQuery(SubsetsUpTo(LookupIds, 1), {{}})

DefaultsAdvance == advances_done < 1 /\ Advance({6 * DayTicks})

DefaultsDue == GetDueReviews(1 .. MaxLimit)

ObservationsLeft == engine_steps < MaxObservations

DefaultsObserveDifficulty ==
    /\ ObservationsLeft
    /\ UpdateDifficulty(DefaultsVelocities, {1}, {55}, BanditRewards)

DefaultsObserveRetest ==
    ObservationsLeft /\ UpdateRetest(DefaultsVelocities, {45}, BanditRewards)

DefaultsObserveEngagement ==
    ObservationsLeft /\ UpdateEngagement(DefaultsMinutes, {4}, BanditRewards)

DefaultsObserveScheduler ==
    ObservationsLeft /\ UpdateScheduler(DefaultsTotals, {4}, BanditRewards)

DefaultsNext ==
    \/ DefaultsPath \/ DefaultsAdvance \/ DefaultsDue
    \/ DefaultsObserveDifficulty \/ DefaultsObserveRetest
    \/ DefaultsObserveEngagement \/ DefaultsObserveScheduler
    \/ SelectDifficulty(Velocities) \/ SelectThreshold(Velocities)
    \/ SelectRetestMultiplier(Velocities)
    \/ SelectEngagementProfile(EngagementMinutes) \/ SelectSm2Profile(SchedulerTotals)

SpecDefaults == DefaultsInit /\ [][DefaultsNext]_vars

(***************************************************************************)
(* Specification of the retention curve: one concept is reviewed at most   *)
(* MaxRetentionReviews times, the clock advances at most                   *)
(* MaxRetentionAdvances times by three minutes or by a day, and the        *)
(* retention of the concept is asked for at any moment.                    *)
(***************************************************************************)
MaxRetentionReviews == 2
MaxRetentionAdvances == 2
RetentionScores == {5, 10}
RetentionMisconCounts == {0, 1}

RetentionInit == KGInit /\ RSInit /\ ENInit /\ LSInit

RetentionReview ==
    /\ reviews_done < MaxRetentionReviews
    /\ ScheduleReview({1}, RetentionScores, {DEFAULT_SM2_PROFILE}, RetentionMisconCounts)

RetentionAdvance ==
    /\ advances_done < MaxRetentionAdvances
    /\ Advance(TimeSteps)

RetentionCurve == GetRetentionCurve({1})

RetentionNext == RetentionReview \/ RetentionAdvance \/ RetentionCurve

SpecRetention == RetentionInit /\ [][RetentionNext]_vars

(***************************************************************************)
(* Specification of the strategy selection: the bandit takes in at most    *)
(* MaxStrategyUpdates scores and a strategy is selected with any set of    *)
(* the five strategies excluded.                                           *)
(***************************************************************************)
MaxStrategyUpdates == 1
SampleValues == {1, 2}

SelectionInit == KGInit /\ RSInit /\ ENInit /\ LSInit

SelectionUpdate ==
    /\ engine_steps < MaxStrategyUpdates
    /\ UpdateStrategy(EngineStrategies, EngineScores)

SelectionSelect == SelectStrategy(Range(ALL_STRATEGIES), SampleValues)

SelectionNext == SelectionUpdate \/ SelectionSelect

SpecSelection == SelectionInit /\ [][SelectionNext]_vars

(***************************************************************************)
(* Specification of two learners: at most MaxLearnerSteps selections,      *)
(* reviews and updates for learners 1 and 2, one after the other in any    *)
(* order, on one process and its generator.                                *)
(***************************************************************************)
MaxLearnerSteps == 3
LearnerScores == {5, 10}
LearnerRewards == {150}

LearnersInit == KGInit /\ RSInit /\ ENInit /\ LSInit

LearnersRetest ==
    /\ engine_steps < MaxLearnerSteps
    /\ \E lid \in LearnerIds : SelectsRetest(lid)

LearnersReview ==
    /\ engine_steps < MaxLearnerSteps
    /\ \E lid \in LearnerIds : SchedulesReview(lid, {1}, LearnerScores)

LearnersUpdate ==
    /\ engine_steps < MaxLearnerSteps
    /\ \E lid \in LearnerIds :
          UpdatesDifficulty(lid, Range(DIFFICULTY_LEVELS), LearnerRewards)

LearnersNext == LearnersRetest \/ LearnersReview \/ LearnersUpdate

SpecLearners == LearnersInit /\ [][LearnersNext]_vars

(***************************************************************************)
(* Specification of the walks on graphs with cycles: a store of the three  *)
(* concepts with at most MaxCycleEdges prerequisite entries in all, that   *)
(* is every self-loop, every cycle of two or three concepts and every      *)
(* duplicate entry, queried for closures and paths.                        *)
(***************************************************************************)
MaxCycleEdges == 3

CycleGraphs ==
    {cs \in [ConceptIds -> [prerequisites : SeqsUpTo(ConceptIds, MaxPrereqs),
                            transfers_to : {{}}]] :
        PrereqEntries(cs) <= MaxCycleEdges}

CyclesInit ==
    /\ concepts \in CycleGraphs
    /\ prerequisite_cache = <<>>
    /\ kg_call = NoCall
    /\ RSInit
    /\ ENInit
    /\ LSInit

CyclesPath == PathQuery(SubsetsUpTo(ConceptIds, MaxTargets), {{}})

CyclesNext == GetAllPrerequisites \/ CyclesPath

SpecCycles == CyclesInit /\ [][CyclesNext]_vars

(***************************************************************************)
(* Specification of the closure cache: concepts are added one at a time,   *)
(* graph files of at most MaxFileConcepts entries are loaded, and closures *)
(* are asked for in between.                                               *)
(***************************************************************************)
MaxFileConcepts == 2

\* The concepts added and loaded: ids 1 and 2 with at most one prerequisite
\* out of them and no transfer edge.  Closures are asked for id 3 too.
CacheIds == {1, 2}
CacheValues == [prerequisites : SeqsUpTo(CacheIds, 1), transfers_to : {{}}]

\* The entries of the files: a concept, or an entry the model class rejects.
FileEntries == [id : CacheIds, value : CacheValues] \cup {InvalidRaw}

\* The files all of whose entries are valid.
ValidFiles ==
    {file \in SeqsUpTo(FileEntries, MaxFileConcepts) :
        \A i \in DOMAIN file : "invalid" \notin DOMAIN file[i]}

CacheInit == KGInit /\ RSInit /\ ENInit /\ LSInit

CacheAdd == AddOne(CacheIds, CacheValues)

CacheLoad == Load(SeqsUpTo(FileEntries, MaxFileConcepts))

CacheNext == CacheAdd \/ CacheLoad \/ GetAllPrerequisites

SpecCache == CacheInit /\ [][CacheNext]_vars

\* The same with files that load without an error.
CacheLoadValid == Load(ValidFiles)

CacheNextValid == CacheAdd \/ CacheLoadValid \/ GetAllPrerequisites

SpecCacheValid == CacheInit /\ [][CacheNextValid]_vars

(***************************************************************************)
(* Specification of the growth of the store: batches of at most            *)
(* MaxBatch concepts are added, with ids the store holds or not, and with  *)
(* the same id twice.                                                      *)
(***************************************************************************)
MaxBatch == 2

BatchEntries ==
    [id : CacheIds,
     value : [prerequisites : SeqsUpTo(CacheIds, 1), transfers_to : SUBSET {1}]]

AppendInit == KGInit /\ RSInit /\ ENInit /\ LSInit

AppendBatch == AddBatch(SeqsUpTo(BatchEntries, MaxBatch))

AppendNext == AppendBatch \/ GetPrerequisites

SpecAppend == AppendInit /\ [][AppendNext]_vars

(***************************************************************************)
(* Specification of the strategy bandit: at most MaxArmUpdates updates of  *)
(* arms it holds and of an arm it does not hold, with scores over [0, 1].  *)
(***************************************************************************)
MaxArmUpdates == 6
ArmNames == {"socratic", "explain_back", "custom"}
ArmScores == {0, 3, 10}

ArmsInit == KGInit /\ RSInit /\ ENInit /\ LSInit

ArmsUpdate ==
    /\ engine_steps < MaxArmUpdates
    /\ UpdateStrategy(ArmNames, ArmScores)

ArmsExclusion == GetExclusionSet

ArmsNext == ArmsUpdate \/ ArmsExclusion

SpecArms == ArmsInit /\ [][ArmsNext]_vars

(***************************************************************************)
(* Specification of failing strategies: every update has score 0 and an    *)
(* arm takes at most MaxArmFailures of them.                               *)
(***************************************************************************)
MaxArmFailures == 5

FailuresInit == KGInit /\ RSInit /\ ENInit /\ LSInit

FailuresUpdate ==
    \E strategy \in Range(ALL_STRATEGIES) :
        /\ Lookup(engine.strategy_bandit.arms, strategy)[2] < 10 + 10 * MaxArmFailures
        /\ UpdateStrategy({strategy}, {0})

FailuresNext == FailuresUpdate \/ GetExclusionSet

SpecFailures == FailuresInit /\ [][FailuresNext]_vars

(***************************************************************************)
(* Specification of the exploration rate: one bandit of a fresh engine is  *)
(* updated up to MaxEpsilonUpdates times, always with the same             *)
(* observation, and the epsilon of every bandit is read in between.        *)
(***************************************************************************)
MaxEpsilonUpdates == 201

EpsilonLayers == {"difficulty_bandit", "engagement_bandit", "scheduler_bandit"}

\* The bandit of layer may take one more update: the other two are fresh.
TrainedAlone(layer) ==
    /\ engine[layer].total_updates < MaxEpsilonUpdates
    /\ \A other \in EpsilonLayers \ {layer} : engine[other].total_updates = 0

EpsilonInit == KGInit /\ RSInit /\ ENInit /\ LSInit

EpsilonDifficulty ==
    TrainedAlone("difficulty_bandit") /\ UpdateDifficulty({10}, {2}, {70}, {10})

EpsilonEngagement ==
    TrainedAlone("engagement_bandit") /\ UpdateEngagement({10}, {1}, {10})

EpsilonScheduler ==
    TrainedAlone("scheduler_bandit") /\ UpdateScheduler({3}, {0}, {10})

EpsilonRead == \E layer \in EpsilonLayers : ReadEpsilon(layer)

EpsilonNext ==
    EpsilonDifficulty \/ EpsilonEngagement \/ EpsilonScheduler \/ EpsilonRead

SpecEpsilon == EpsilonInit /\ [][EpsilonNext]_vars

(***************************************************************************)
(* Specification of greedy selection: the difficulty bandit learns under   *)
(* two contexts and the scheduler bandit under one, and every selection is *)
(* made in between.                                                        *)
(***************************************************************************)
MaxGreedyUpdates == 3
GreedyVelocities == {5, 10}
GreedyDifficulties == {1, 3}
GreedyThresholds == {70}
GreedyTotals == {3}
GreedyProfiles == {0, 4}
GreedyRewards == {-10, 70, 130}

GreedyInit == KGInit /\ RSInit /\ ENInit /\ LSInit

GreedyDifficulty ==
    /\ engine_steps < MaxGreedyUpdates
    /\ UpdateDifficulty(GreedyVelocities, GreedyDifficulties, GreedyThresholds,
                        GreedyRewards)

GreedyScheduler ==
    /\ engine_steps < MaxGreedyUpdates
    /\ UpdateScheduler(GreedyTotals, GreedyProfiles, GreedyRewards)

GreedySelectDifficulty == SelectDifficulty(GreedyVelocities)

GreedySelectProfile == SelectSm2Profile(GreedyTotals)

GreedyNext ==
    \/ GreedyDifficulty \/ GreedyScheduler
    \/ GreedySelectDifficulty \/ GreedySelectProfile

SpecGreedy == GreedyInit /\ [][GreedyNext]_vars

(***************************************************************************)
(* Specification of the candidates returned: the difficulty bandit is      *)
(* updated with values of its candidate lists and with other values, and   *)
(* its three selections are made in between.                               *)
(***************************************************************************)
MaxCandidateUpdates == 2
CandidateVelocities == {10}
PassedDifficulties == {2, 5}
PassedThresholds == {70, 90}
PassedMultipliers == {57, 30}

CandidatesInit == KGInit /\ RSInit /\ ENInit /\ LSInit

CandidatesUpdate ==
    /\ engine_steps < MaxCandidateUpdates
    /\ UpdateDifficulty(CandidateVelocities, PassedDifficulties, PassedThresholds,
                        BanditRewards)

CandidatesUpdateRetest ==
    /\ engine_steps < MaxCandidateUpdates
    /\ UpdateRetest(CandidateVelocities, PassedMultipliers, BanditRewards)

CandidatesDifficulty == SelectDifficulty(CandidateVelocities)

CandidatesThreshold == SelectThreshold(CandidateVelocities)

CandidatesRetest == SelectRetestMultiplier(CandidateVelocities)

CandidatesNext ==
    \/ CandidatesUpdate \/ CandidatesUpdateRetest
    \/ CandidatesDifficulty \/ CandidatesThreshold \/ CandidatesRetest

SpecCandidates == CandidatesInit /\ [][CandidatesNext]_vars

(***************************************************************************)
(* Specification of the counts of the difficulty bandit: updates under two *)
(* contexts, retest updates, and the engine written to the policy and read *)
(* back in between.                                                        *)
(***************************************************************************)
MaxCountedUpdates == 3
CountedVelocities == {5, 10}
CountedDifficulties == {1, 2}
CountedThresholds == {55, 70}

CountsInit == KGInit /\ RSInit /\ ENInit /\ LSInit

CountsUpdate ==
    /\ engine_steps < MaxCountedUpdates
    /\ UpdateDifficulty(CountedVelocities, CountedDifficulties, CountedThresholds,
                        BanditRewards)

CountsUpdateRetest ==
    /\ engine_steps < MaxCountedUpdates
    /\ UpdateRetest({10}, {57}, BanditRewards)

CountsNext == CountsUpdate \/ CountsUpdateRetest \/ RestorePolicy

SpecCounts == CountsInit /\ [][CountsNext]_vars

(***************************************************************************)
(* Specification of the Q-learner: updates of two actions in two states,   *)
(* the next state being either of them.                                    *)
(***************************************************************************)
MaxQSteps == 3
QActions == {"test", "teach"}

QInit == KGInit /\ RSInit /\ ENInit /\ LSInit

QUpdate ==
    /\ engine.action_q.total_updates < MaxQSteps
    /\ UpdateAction(StateKeys, QActions, Rewards)

QSave == SavePolicy

QNext == QUpdate \/ QSave

SpecQ == QInit /\ [][QNext]_vars

(***************************************************************************)
(* Specification of the next action: the Q-learner is updated for two      *)
(* states with actions of QL_ACTIONS and asked for the action of a concept *)
(* of every status in between.                                             *)
(***************************************************************************)
MaxActionUpdates == 2
ConceptStatuses ==
    {"unknown", "introduced", "practicing", "testing", "mastered", "decayed", "paused"}
LearnedKeys == {StateKeyOf("unknown", 0, 0), StateKeyOf("testing", 1, 1)}
LearnedActions == {"test", "reteach"}

ActionsInit == KGInit /\ RSInit /\ ENInit /\ LSInit

ActionsUpdate ==
    /\ engine_steps < MaxActionUpdates
    /\ UpdateAction(LearnedKeys, LearnedActions, Rewards)

ActionsSelect == SelectNextAction((ConceptStatuses \X {0}) \cup {<<"testing", 1>>})

ActionsNext == ActionsUpdate \/ ActionsSelect

SpecActions == ActionsInit /\ [][ActionsNext]_vars

(***************************************************************************)
(* Specification of the hyperparameters: the engine is built for a learner *)
(* of some experience, its Q-learner is asked and updated, and the engine  *)
(* is written to the policy and read back.                                 *)
(***************************************************************************)
MaxHyperUpdates == 2
MasteredCounts == {0, 4, 5, 19, 20}

HyperInit == KGInit /\ RSInit /\ ENInit /\ LSInit

HyperGetEngine == GetEngine(MasteredCounts)

HyperUpdate ==
    /\ engine_steps < MaxHyperUpdates
    /\ UpdateAction(LearnedKeys, {"test"}, Rewards)

HyperSelect == SelectNextAction({<<"unknown", 0>>, <<"testing", 1>>})

HyperNext == HyperGetEngine \/ HyperUpdate \/ HyperSelect \/ RestorePolicy

SpecHyper == HyperInit /\ [][HyperNext]_vars

(***************************************************************************)
(* Specification of the queries: every selection of the engine is made on  *)
(* the fresh engine and after updates of each layer.                       *)
(***************************************************************************)
MaxQueryUpdates == 2

QueriesInit == KGInit /\ RSInit /\ ENInit /\ LSInit

QueriesUpdate ==
    /\ engine_steps < MaxQueryUpdates
    /\ \/ UpdateStrategy({"analogy"}, {3})
       \/ UpdateDifficulty({10}, {1}, {55}, BanditRewards)
       \/ UpdateRetest({10}, {45}, BanditRewards)
       \/ UpdateAction({StateKeyOf("unknown", 0, 0)}, {"test"}, BanditRewards)
       \/ UpdateEngagement({10}, {4}, BanditRewards)
       \/ UpdateScheduler({3}, {4}, BanditRewards)

QueriesStrategy ==
    \/ SelectStrategy({"socratic"}, {1, 2})
    \/ GetBestStrategy
    \/ GetExclusionSet

QueriesDifficulty ==
    \/ SelectDifficulty({5, 10})
    \/ SelectThreshold({5, 10})
    \/ SelectRetestMultiplier({5, 10})

QueriesAction == SelectNextAction({<<"unknown", 0>>, <<"mastered", 0>>})

QueriesProfile ==
    \/ SelectEngagementProfile({10, 20})
    \/ SelectSm2Profile({0, 3})

QueriesNext ==
    \/ QueriesUpdate \/ QueriesStrategy \/ QueriesDifficulty
    \/ QueriesAction \/ QueriesProfile \/ SavePolicy

SpecQueries == QueriesInit /\ [][QueriesNext]_vars

(***************************************************************************)
(* Specification of mastery: requests practise a concept, pass its test    *)
(* or mark it mastered, and write the learner back.                        *)
(***************************************************************************)
MasteryConcepts == {1, 2}

MasteryInit ==
    /\ KGInit /\ RSInit /\ ENInit
    /\ learners = [lid \in LearnerIds |-> NewMasteryLearner]
    /\ requests = [r \in RequestIds |-> IdleRequest]
    /\ rl_rng = 0
    /\ alone = [ret |-> 0, rl_rng |-> 0, learner |-> NewLearner]

MasteryLoads == \E r \in RequestIds : GetLearner(r)

MasteryPractises == \E r \in RequestIds : ToolPractice(r, MasteryConcepts)

MasteryPasses == \E r \in RequestIds : HandleMastery(r, MasteryConcepts, {10})

MasteryPersists == \E r \in RequestIds : HandleMasteryUpdate(r)

MasterySchedules == \E r \in RequestIds : EvaluateMastered(r, {"socratic"})

MasteryMarks == \E r \in RequestIds : ToolMarkMastered(r, MasteryConcepts)

MasterySaves == \E r \in RequestIds : UpdateLearner(r)

MasteryNext ==
    \/ MasteryLoads \/ MasteryPractises \/ MasteryPasses \/ MasteryPersists
    \/ MasterySchedules \/ MasteryMarks \/ MasterySaves

SpecMastery == MasteryInit /\ [][MasteryNext]_vars

(***************************************************************************)
(* Specification of repeated reviews: one concept with three active        *)
(* misconceptions is reviewed again and again under the aggressive and the *)
(* high-penalty profile.                                                   *)
(***************************************************************************)
MaxIntervalReviews == 8
IntervalScores == {6, 10}
IntervalProfiles == {2, 4}

IntervalsInit == KGInit /\ RSInit /\ ENInit /\ LSInit

IntervalsReview ==
    /\ reviews_done < MaxIntervalReviews
    /\ ScheduleReview({1}, IntervalScores, IntervalProfiles, {3})

IntervalsNext == IntervalsReview

SpecIntervals == IntervalsInit /\ [][IntervalsNext]_vars

(***************************************************************************)
(* Specification of the curriculum: concepts are added to the store and    *)
(* the next concept is selected for learners of every record of statuses.  *)
(***************************************************************************)
\* The status of a concept in learner.concept_states; "none" stands for a
\* concept the learner has no state for, which the selection treats as it
\* treats "unknown" and "introduced".
CurriculumStatuses == {"none", "testing", "mastered"}

\* The concepts the store is given: prerequisites lists, no transfer edge.
CurriculumValues ==
    [prerequisites : SeqsUpTo(ConceptIds, MaxPrereqs), transfers_to : {{}}]

\* The required concepts of the career targets: none (every concept of the
\* store is a target then) or one concept, which the graphs place at every
\* position of a chain.
CurriculumTargets == {{}, {3}}

CurriculumInit == KGInit /\ RSInit /\ ENInit /\ LSInit

CurriculumAdds == AddOne(ConceptIds, CurriculumValues)

CurriculumSelects ==
    SelectNextConcept(CurriculumTargets, [ConceptIds -> CurriculumStatuses])

CurriculumNext == CurriculumAdds \/ CurriculumSelects

SpecCurriculum == CurriculumInit /\ [][CurriculumNext]_vars

(***************************************************************************)
(* Specification of concurrent requests: every request is for one of the   *)
(* learners, passes a test on a concept with a score that reaches the      *)
(* mastery threshold, and the coroutines interleave at their awaits.       *)
(***************************************************************************)
RequestConcepts == {1, 2}
RequestStrategies == {"socratic", "analogy"}
RequestScores == {8, 10}

RequestsInit == KGInit /\ RSInit /\ ENInit /\ LSInit

RequestLoads == \E r \in RequestIds : GetLearner(r)

RequestEvaluates ==
    \E r \in RequestIds :
        ToolEvaluate(r, RequestConcepts, RequestStrategies, RequestScores)

RequestSaves == \E r \in RequestIds : UpdateLearner(r)

RequestsNext == RequestLoads \/ RequestEvaluates \/ RequestSaves

SpecRequests == RequestsInit /\ [][RequestsNext]_vars

(***************************************************************************)
(* Properties of the path scheduler                                        *)
(***************************************************************************)
\* The direct prerequisites of a concept as a set.
DirectPrereqs(cs, c) == Range(get_prerequisites(cs, c))

\* The concepts reachable from the set F over prerequisite edges that stay
\* inside the set U (a fixpoint, independent of the store's closure walk).
RECURSIVE ReachWithin(_, _, _)
ReachWithin(cs, U, F) ==
    LET G == F \cup ((UNION {DirectPrereqs(cs, c) : c \in F}) \cap U)
    IN  IF G = F THEN F ELSE ReachWithin(cs, U, G)

\* The transitive prerequisites of the concepts of T.
TransitivePrereqs(cs, T) ==
    ReachWithin(cs, ConceptIds, UNION {DirectPrereqs(cs, c) : c \in T})

\* Some concept of U is its own transitive prerequisite over edges inside U.
CyclicWithin(cs, U) ==
    \E c \in U : c \in ReachWithin(cs, U, DirectPrereqs(cs, c) \cap U)

AcyclicGraph(cs) == ~CyclicWithin(cs, ConceptIds)

\* Every prerequisite id of a stored concept names a stored concept.
ReferencesExist(cs) == \A c \in DOMAIN cs : DirectPrereqs(cs, c) \subseteq DOMAIN cs

PathCall == kg_call.op = "compute_learning_path"

PathIds == {kg_call.path[i].concept_id : i \in DOMAIN kg_call.path}

\* The unmastered required concepts of the last path query.
UnmasteredRequired ==
    (kg_call.targets \cup TransitivePrereqs(concepts, kg_call.targets))
        \ kg_call.mastered

\* C1: on an acyclic graph every concept of a returned path comes strictly
\* after each of its direct prerequisites that is in the path too.
C1_TopologicalValidity ==
    (PathCall /\ AcyclicGraph(concepts)) =>
        \A i, j \in DOMAIN kg_call.path :
            kg_call.path[j].concept_id
                \in DirectPrereqs(concepts, kg_call.path[i].concept_id)
            => j < i

\* A path of three steps over a chain of prerequisites has been returned.
C1_Witness ==
    /\ PathCall
    /\ AcyclicGraph(concepts)
    /\ Len(kg_call.path) = 3
    /\ kg_call.path[1].concept_id
           \in DirectPrereqs(concepts, kg_call.path[2].concept_id)
    /\ kg_call.path[2].concept_id
           \in DirectPrereqs(concepts, kg_call.path[3].concept_id)

\* C2: on an acyclic graph whose referenced ids all exist, the returned ids
\* are exactly (targets and their transitive prerequisites) minus mastered,
\* each exactly once.
C2_ExactCoverage ==
    (PathCall /\ AcyclicGraph(concepts) /\ ReferencesExist(concepts)
        /\ kg_call.targets \subseteq DOMAIN concepts) =>
        /\ PathIds = UnmasteredRequired
        /\ \A i, j \in DOMAIN kg_call.path :
               kg_call.path[i].concept_id = kg_call.path[j].concept_id => i = j

\* C3: a prerequisite cycle among the unmastered required concepts is
\* surfaced as a structural error and no path is returned.
C3_CycleSurfaced ==
    (PathCall /\ CyclicWithin(concepts, UnmasteredRequired)) =>
        kg_call.status = "error"

\* C4: a target id or a reached prerequisite id that names no stored concept
\* is surfaced as a structural error, never scheduled as a step.
C4_UnknownIdSurfaced ==
    (PathCall /\ ~(kg_call.targets \cup TransitivePrereqs(concepts, kg_call.targets)
                      \subseteq DOMAIN concepts)) =>
        /\ kg_call.status = "error"
        /\ PathIds \subseteq DOMAIN concepts

(***************************************************************************)
(* Properties of SM-2 scheduling                                           *)
(***************************************************************************)
ReviewCall == rs_call.op = "schedule_review"

ProfileUsed == SM2_PROFILES[rs_call.profile]

\* The serialized item of the concept the last call reviewed.
PersistedItem == review_queue[QueueIndex(review_queue, rs_call.item.concept_id)]

\* C5: after schedule_review the easiness factor of the item is at least the
\* min_ef of the profile used for the call, in memory and as persisted by
\* to_dict, after any sequence of reviews.
C5_EFLowerBound ==
    ReviewCall =>
        /\ rs_call.item.easiness_factor >= MilliEF * ProfileUsed.min_ef
        /\ PersistedItem.easiness_factor >= MilliEF * ProfileUsed.min_ef

\* A review in which the lower bound decided the easiness factor.
C5_Witness ==
    /\ ReviewCall
    /\ EFUnclamped(rs_call.prior.easiness_factor, ProfileUsed, rs_call.score)
           < MilliEF * ProfileUsed.min_ef
    /\ rs_call.item.easiness_factor = MilliEF * ProfileUsed.min_ef
    /\ rs_call.prior.easiness_factor < (5 * EFUnit) \div 2

\* C6 as stated: a score below 0.6 sets repetition_count to 0 and
\* interval_days to the reset interval of the profile, whatever the number of
\* active misconceptions.
C6_FailureResets ==
    (ReviewCall /\ rs_call.score < 6) =>
        /\ rs_call.item.repetition_count = 0
        /\ rs_call.item.interval_days = ResetInterval(ProfileUsed)

\* C6 amended: a score below 0.6 sets repetition_count to 0 and interval_days
\* to the reset interval of the profile times
\* (1 - miscon_penalty * min(misconceptions, 3)), which is the reset interval
\* itself when there is no active misconception.
C6_FailureResetsPenalised ==
    (ReviewCall /\ rs_call.score < 6) =>
        /\ rs_call.item.repetition_count = 0
        /\ rs_call.item.interval_days * 10 =
               (ResetInterval(ProfileUsed) \div 100)
                   * (1000 - ProfileUsed.miscon_penalty * Min(rs_call.miscon_count, 3))

\* A failed review, with active misconceptions, of an item that had two
\* repetitions and an interval of six days.
C6_Witness ==
    /\ ReviewCall
    /\ rs_call.score < 6
    /\ rs_call.miscon_count > 0
    /\ rs_call.prior.repetition_count = 2
    /\ rs_call.item.repetition_count = 0
    /\ rs_call.item.interval_days < ResetInterval(ProfileUsed)

\* C7: a review with quality >= 3 and no active misconception sets the
\* interval to the reset interval when repetition_count was 0, to six times
\* the reset interval when it was 1, and otherwise to the prior interval times
\* the easiness factor computed in this call; repetition_count grows by one.
C7_SuccessIntervals ==
    (ReviewCall /\ rs_call.score * 5 >= 30 /\ rs_call.miscon_count = 0) =>
        /\ rs_call.item.repetition_count = rs_call.prior.repetition_count + 1
        /\ rs_call.prior.repetition_count = 0 =>
               rs_call.item.interval_days = ResetInterval(ProfileUsed)
        /\ rs_call.prior.repetition_count = 1 =>
               rs_call.item.interval_days = 6 * ResetInterval(ProfileUsed)
        /\ rs_call.prior.repetition_count >= 2 =>
               rs_call.item.interval_days =
                   (rs_call.prior.interval_days \div EFUnit) * rs_call.item.easiness_factor

\* The example of the specification: easiness factor 2.5, interval 6 days and
\* two repetitions, reviewed with score 1.0 under the standard profile, gives
\* easiness factor 2.6, interval 15.6 days and three repetitions.
C7_Witness ==
    /\ ReviewCall
    /\ rs_call.profile = DEFAULT_SM2_PROFILE
    /\ rs_call.score = 10
    /\ rs_call.miscon_count = 0
    /\ rs_call.prior.easiness_factor = 25 * (EFUnit \div 10)
    /\ rs_call.prior.interval_days = 6 * DayTicks
    /\ rs_call.prior.repetition_count = 2
    /\ rs_call.item.easiness_factor = 26 * (EFUnit \div 10)
    /\ rs_call.item.interval_days = 156 * TenthOfDay
    /\ rs_call.item.repetition_count = 3
    /\ PersistedItem.interval_days = 156 * TenthOfDay

(***************************************************************************)
(* Properties of the query for the due reviews                             *)
(***************************************************************************)
DueCall == rs_call.op = "get_due_reviews"

\* The items of the queue that are due now.
DueItems == {i \in DOMAIN review_queue : review_queue[i].next_review <= now}

\* The serialized item of a returned entry.
ItemOf(entry) == review_queue[QueueIndex(review_queue, entry.concept_id)]

\* urgency(a) >= urgency(b) for two due items, urgency being
\* overdue_days / max(interval_days, 1) with nothing rounded; intervals are
\* whole tenths of a day.
AtLeastAsUrgent(a, b) ==
    (now - a.next_review) * (Max(b.interval_days, DayTicks) \div TenthOfDay)
        >= (now - b.next_review) * (Max(a.interval_days, DayTicks) \div TenthOfDay)

\* C8: get_due_reviews returns only due items, at most limit of them, in
\* non-increasing order of urgency = overdue_days / max(interval_days, 1), and
\* every due item left out is at most as urgent as every item returned.
C8_MostUrgentFirst ==
    DueCall =>
        LET ret == rs_call.ret
            returned == {QueueIndex(review_queue, ret[k].concept_id) : k \in DOMAIN ret}
        IN  /\ returned \subseteq DueItems
            /\ Len(ret) <= rs_call.limit
            /\ \A j, k \in DOMAIN ret :
                   j < k => AtLeastAsUrgent(ItemOf(ret[j]), ItemOf(ret[k]))
            /\ \A i \in DueItems \ returned : \A k \in DOMAIN ret :
                   AtLeastAsUrgent(ItemOf(ret[k]), review_queue[i])

(***************************************************************************)
(* Properties of the engine                                                *)
(***************************************************************************)
\* The arm has scored 1.0 at least once and never anything else, and no
\* other arm has ever scored anything but 0.0.
Dominant(bandit, s) ==
    /\ ArmOf(bandit, s)[1] >= 20
    /\ ArmOf(bandit, s)[2] = 10
    /\ \A t \in StrategyNames \ {s} : ArmOf(bandit, t)[1] = 10

\* C9: from a fresh StrategyBandit, after at least 30 updates in which one arm
\* always scores 1.0 and every other updated arm always scores 0.0, get_best
\* returns the arm that scored 1.0.
C9_DominantArmIsBest ==
    \A s \in StrategyNames :
        (engine_steps >= 30 /\ Dominant(engine.strategy_bandit, s)) =>
            get_best(engine.strategy_bandit) = s

\* Thirty updates: the third arm scored 1.0 twenty-eight times, the first
\* and the last arm 0.0 once each.
C9_Witness ==
    /\ engine_steps = 30
    /\ Dominant(engine.strategy_bandit, "analogy")
    /\ ArmOf(engine.strategy_bandit, "analogy") = <<290, 10>>
    /\ ArmOf(engine.strategy_bandit, "socratic") = <<10, 20>>
    /\ ArmOf(engine.strategy_bandit, "explain_back") = <<10, 20>>
    /\ get_best(engine.strategy_bandit) = "analogy"

\* The distance of two numbers.
Distance(x, y) == IF x >= y THEN x - y ELSE y - x

\* from_dict(to_dict(item)) is the item with its easiness factor rounded to
\* three decimals and its interval to one, and serializes as the item does.
ItemRoundTrips(item) ==
    LET data == ReviewItem_to_dict(item)
        back == ReviewItem_from_dict(data)
    IN  /\ back.concept_id = item.concept_id
        /\ back.repetition_count = item.repetition_count
        /\ back.next_review = item.next_review
        /\ back.last_score = item.last_score
        /\ back.misconception_count = item.misconception_count
        /\ back.easiness_factor % MilliEF = 0
        /\ 2 * Distance(back.easiness_factor, item.easiness_factor) <= MilliEF
        /\ back.interval_days % TenthOfDay = 0
        /\ 2 * Distance(back.interval_days, item.interval_days) <= TenthOfDay
        /\ ReviewItem_to_dict(back) = data

\* C10: for every engine a sequence of updates leads to,
\* RLEngine.from_dict(engine.to_dict()) has the arms, tables, Q-table,
\* hyperparameters and counters of the engine; and for every ReviewItem a
\* review leaves, from_dict(to_dict(item)) is the item up to the rounding of
\* to_dict, so that serializing it again changes nothing.
C10_SerializationRoundTrip ==
    /\ RLEngine_from_dict(RLEngine_to_dict(engine)) = engine
    /\ ReviewCall => ItemRoundTrips(rs_call.item)

\* An engine read back from the policy written after an update of the
\* difficulty tables with a two-digit difficulty and a two-decimal threshold
\* and an update of the Q-table, and a reviewed item whose easiness factor
\* and interval are not on the grid to_dict rounds to.
C10_Witness ==
    /\ rl_call.op = "get_rl_engine"
    /\ rl_policy # EmptyPolicy
    /\ engine = RLEngine_from_dict(rl_policy)
    /\ \E i \in DOMAIN engine.difficulty_bandit.difficulty_table :
           KeyIndex(engine.difficulty_bandit.difficulty_table[i].value, 10) # 0
    /\ \E i \in DOMAIN engine.difficulty_bandit.threshold_table :
           KeyIndex(engine.difficulty_bandit.threshold_table[i].value, 55) # 0
    /\ engine.action_q.q_table # <<>>
    /\ ReviewCall
    /\ rs_call.item.easiness_factor % MilliEF # 0
    /\ rs_call.item.interval_days % TenthOfDay # 0

(***************************************************************************)
(* Properties of concurrent requests                                       *)
(***************************************************************************)
\* The requests for a learner that have written their record back, and the
\* ones that hold a LearnerState and have not written it yet.
DoneFor(lid) ==
    {r \in RequestIds : requests[r].pc = "done" /\ requests[r].learner_id = lid}

InFlightFor(lid) ==
    {r \in RequestIds :
        requests[r].pc \in {"loaded", "evaluated"} /\ requests[r].learner_id = lid}

\* The number of evaluations a stored policy has taken in: every
\* _tool_evaluate makes one update_action, which counts in total_updates.
PolicyUpdates(policy) ==
    IF policy = EmptyPolicy THEN 0 ELSE policy.action_q.total_updates

\* C11: once the concurrent requests for one learner have all completed, the
\* persisted record holds the effect of each of them: the stored policy has
\* taken in one evaluation per request and the stored review queue holds the
\* concept each request scheduled; no interleaving loses an update.
C11_NoLostUpdate ==
    \A lid \in LearnerIds :
        InFlightFor(lid) = {} =>
            /\ PolicyUpdates(learners[lid].rl_policy) = Cardinality(DoneFor(lid))
            /\ \A r \in DoneFor(lid) :
                  QueueIndex(learners[lid].review_queue, requests[r].concept_id) # 0

(***************************************************************************)
(* Properties of loading a stored policy                                   *)
(***************************************************************************)
\* The engine RLEngine() builds: every arm at (1, 1), every table empty,
\* every counter 0.
FreshEngine(e) ==
    /\ {e.strategy_bandit.arms[i].key : i \in DOMAIN e.strategy_bandit.arms}
           = Range(ALL_STRATEGIES)
    /\ \A i \in DOMAIN e.strategy_bandit.arms :
           e.strategy_bandit.arms[i].value = <<10, 10>>
    /\ e.difficulty_bandit.difficulty_table = <<>>
    /\ e.difficulty_bandit.threshold_table = <<>>
    /\ e.difficulty_bandit.retest_table = <<>>
    /\ e.action_q.q_table = <<>>
    /\ e.engagement_bandit.profile_table = <<>>
    /\ e.scheduler_bandit.profile_table = <<>>
    /\ e.difficulty_bandit.total_updates = 0
    /\ e.action_q.total_updates = 0
    /\ e.engagement_bandit.total_updates = 0
    /\ e.scheduler_bandit.total_updates = 0

\* from_dict raises on the stored policy.
LoadFails(policy) == RLEngine_from_dict(policy) = ValueError

\* C12: get_rl_engine never raises: on an empty rl_policy, or one from_dict
\* raises on, it returns a fresh engine (arms (1, 1), tables empty, counters
\* 0); on any other it returns the engine from_dict read.
C12_LoadNeverRaises ==
    rl_call.op = "get_rl_engine" =>
        /\ engine # ValueError
        /\ IF rl_policy = EmptyPolicy \/ LoadFails(rl_policy)
           THEN FreshEngine(engine)
           ELSE engine = RLEngine_from_dict(rl_policy)

\* A policy with a key int() rejects has been loaded, into a fresh engine.
C12_Witness ==
    /\ rl_call.op = "get_rl_engine"
    /\ rl_policy # EmptyPolicy
    /\ LoadFails(rl_policy)
    /\ FreshEngine(engine)

(***************************************************************************)
(* Properties of the lookups                                               *)
(***************************************************************************)
\* The stores and the queue, which a query has to leave alone.
StoredState == <<concepts, prerequisite_cache, review_queue, learners>>

\* The result of a graph query is the not-found value of its operation.
GraphNotFound(call) ==
    IF call.op = "get_prerequisites" THEN call.ret = <<>> ELSE call.ret = None

\* The record get_retention_curve returns for a concept without an item.
RetentionNotFound(call) ==
    call.ret = [concept_id |-> call.id, retention |-> 0, stability |-> 0]

\* A step that is a graph query, and one that is a retention query.
GraphQueryStep ==
    /\ kg_call' # kg_call
    /\ kg_call'.op \in {"get_concept", "get_prerequisites", "get_transfer_edge"}

RetentionQueryStep ==
    /\ rs_call' # rs_call
    /\ rs_call'.op = "get_retention_curve"

\* C13 as stated: a query naming an id that is not in the store (for
\* get_transfer_edge the source or the target) returns the not-found value
\* of its operation (None, [] or the record with retention 0.0 and stability
\* 0.0) and changes no state.
C13_UnknownIdNotFound ==
    [][/\ (GraphQueryStep /\ kg_call'.op # "get_transfer_edge"
              /\ kg_call'.id \notin DOMAIN concepts)
           => (GraphNotFound(kg_call') /\ UNCHANGED StoredState)
       /\ (GraphQueryStep /\ kg_call'.op = "get_transfer_edge"
              /\ (kg_call'.id \notin DOMAIN concepts
                    \/ kg_call'.target \notin DOMAIN concepts))
           => (GraphNotFound(kg_call') /\ UNCHANGED StoredState)
       /\ (RetentionQueryStep /\ QueueIndex(review_queue, rs_call'.id) = 0)
           => (RetentionNotFound(rs_call') /\ UNCHANGED StoredState)]_vars

\* What holds of the lookups: the same, get_transfer_edge returning None when
\* the source is not in the store, or when the target is not in the store
\* and the source keeps no edge to it.
UnknownSourceNotFound ==
    [][/\ (GraphQueryStep /\ kg_call'.op # "get_transfer_edge"
              /\ kg_call'.id \notin DOMAIN concepts)
           => (GraphNotFound(kg_call') /\ UNCHANGED StoredState)
       /\ (GraphQueryStep /\ kg_call'.op = "get_transfer_edge"
              /\ (kg_call'.id \notin DOMAIN concepts
                    \/ (/\ kg_call'.target \notin DOMAIN concepts
                        /\ kg_call'.target \notin concepts[kg_call'.id].transfers_to)))
           => (GraphNotFound(kg_call') /\ UNCHANGED StoredState)
       /\ (RetentionQueryStep /\ QueueIndex(review_queue, rs_call'.id) = 0)
           => (RetentionNotFound(rs_call') /\ UNCHANGED StoredState)]_vars

(***************************************************************************)
(* Properties of the queries on empty inputs                               *)
(***************************************************************************)
\* The default of a selection: difficulty 2, threshold 0.7, retest
\* multiplier 0.57, engagement profile 1, SM-2 profile 0.
DefaultOf(op) ==
    CASE op = "select_difficulty" -> 2
      [] op = "select_threshold" -> 70
      [] op = "select_retest_multiplier" -> 57
      [] op = "select_engagement_profile" -> 1
      [] op = "select_sm2_profile" -> 0

Selections ==
    {"select_difficulty", "select_threshold", "select_retest_multiplier",
     "select_engagement_profile", "select_sm2_profile"}

\* C14: empty inputs give empty or default results: compute_learning_path of
\* an empty target set returns [], get_due_reviews on an empty queue returns
\* [], and a selection that exploits (its draw did not fall under epsilon)
\* in a context without an observation returns the default of its bandit.
C14_EmptyInputsDefaults ==
    /\ (kg_call.op = "compute_learning_path" /\ kg_call.targets = {})
           => kg_call.path = <<>>
    /\ (rs_call.op = "get_due_reviews" /\ review_queue = <<>>) => rs_call.ret = <<>>
    /\ (rl_call.op \in Selections /\ ~rl_call.explore /\ ~rl_call.known)
           => rl_call.ret = DefaultOf(rl_call.op)

\* The three cases in one state: an empty target set asked of a graph that
\* has concepts, the due reviews of an empty queue, and a threshold selected
\* in a context without an observation by a bandit that has one for another
\* context.
C14_Witness ==
    /\ kg_call.op = "compute_learning_path" /\ kg_call.targets = {}
    /\ concepts # <<>> /\ kg_call.path = <<>>
    /\ rs_call.op = "get_due_reviews" /\ review_queue = <<>> /\ rs_call.ret = <<>>
    /\ rl_call.op = "select_threshold" /\ ~rl_call.explore /\ ~rl_call.known
    /\ engine.difficulty_bandit.threshold_table # <<>>
    /\ rl_call.ret = 70

(***************************************************************************)
(* Properties of the retention curve                                       *)
(***************************************************************************)
\* C15: the retention get_retention_curve returns for an item is 1.0 when
\* zero days have passed since the last review and strictly smaller than
\* that for every strictly larger number of days (retention in thousandths,
\* days_since as the code computes it, in ticks).
C15_RetentionDecays ==
    (rs_call.op = "get_retention_curve" /\ rs_call.found) =>
        /\ rs_call.days_since = 0 => rs_call.ret.retention = 1000
        /\ rs_call.days_since > 0 => rs_call.ret.retention < 1000

(***************************************************************************)
(* Properties of the strategy selection                                    *)
(***************************************************************************)
\* C16: select(exclude) never returns an arm that is in exclude, whatever
\* the exclude list is, the list of every arm included.
C16_NeverExcluded ==
    rl_call.op = "select_strategy" => rl_call.ret \notin rl_call.exclude

(***************************************************************************)
(* Properties of the isolation of learners                                 *)
(***************************************************************************)
LearnerOps == {"select_retest_multiplier", "schedule_review", "update_difficulty"}

\* C17: whatever the operations for learner 2 and their order, the decision
\* returned to learner 1, its policy and its review queue are those of the
\* run in which learner 1 acts alone.
C17_LearnersIsolated ==
    /\ learners[LearnerA] = alone.learner
    /\ rl_call.op \in LearnerOps /\ rl_call.learner_id = LearnerA
          => rl_call.ret = alone.ret

\* The part that holds: the policy of learner 1 is the one of the run alone.
OwnPolicyKept == learners[LearnerA].rl_policy = alone.learner.rl_policy

(***************************************************************************)
(* Properties of the termination of the walks                              *)
(***************************************************************************)
NoDuplicates(seq) == \A i, j \in DOMAIN seq : seq[i] = seq[j] => i = j

\* The number of ids a walk from cid pushes: the list of cid and the list of
\* every id it visits.
RECURSIVE Pushed(_, _)
Pushed(cs, visits) ==
    IF visits = <<>> THEN 0
    ELSE Len(get_prerequisites(cs, Head(visits))) + Pushed(cs, Tail(visits))

\* C18: on every graph, cycles and self-loops included, the closure walk
\* returns having taken each concept at most once and popped no more than
\* it pushed, and the scheduling loop returns having popped each concept at
\* most once.
C18_WalksTerminate ==
    /\ kg_call.op = "get_all_prerequisites" =>
          /\ NoDuplicates(kg_call.walk.visits)
          /\ kg_call.walk.pops <= Len(get_prerequisites(concepts, kg_call.id))
                                  + Pushed(concepts, kg_call.walk.visits)
    /\ kg_call.op = "compute_learning_path" =>
          NoDuplicates([i \in DOMAIN kg_call.path |-> kg_call.path[i].concept_id])

\* A closure asked for a concept on a cycle of three concepts.
C18_Witness ==
    /\ kg_call.op = "get_all_prerequisites"
    /\ kg_call.id \in kg_call.ret
    /\ Len(kg_call.walk.visits) = 3

(***************************************************************************)
(* Properties of the order of the path                                     *)
(***************************************************************************)
\* The ids of the steps of the path returned, in order.
PathOrder == [i \in DOMAIN kg_call.path |-> kg_call.path[i].concept_id]

\* The concepts of S not scheduled yet whose prerequisites in S all are.
ReadyAt(S, scheduled) ==
    {c \in S \ scheduled :
        \A p \in Range(get_prerequisites(concepts, c)) : p \in S => p \in scheduled}

\* The transfer edges of c to other concepts of S not scheduled yet.
OpenTransfers(S, scheduled, c) ==
    Cardinality({other \in (S \ scheduled) \ {c} :
                    get_transfer_edge(concepts, c, other)})

\* C19: every step of the path is a concept whose prerequisites are
\* scheduled and that has, among those, the most transfer edges to other
\* concepts still unscheduled at that step.
C19_GreedyOnOpenTransfers ==
    PathCall =>
        \A i \in DOMAIN PathOrder :
            LET scheduled == {PathOrder[j] : j \in 1 .. i - 1}
                ready == ReadyAt(UnmasteredRequired, scheduled)
            IN  /\ PathOrder[i] \in ready
                /\ \A c \in ready :
                      OpenTransfers(UnmasteredRequired, scheduled, c)
                          <= OpenTransfers(UnmasteredRequired, scheduled, PathOrder[i])

(***************************************************************************)
(* Properties of the closure cache                                         *)
(***************************************************************************)
\* C20: whatever calls of load, add_concepts and get_all_prerequisites came
\* before, get_all_prerequisites(id) returns the transitive closure of the
\* prerequisites of id in the store as it is now.
C20_ClosureIsCurrent ==
    kg_call.op = "get_all_prerequisites" =>
        kg_call.ret = TransitivePrereqs(concepts, {kg_call.id})

\* Every memoized set is the closure in the store as it is now.
CacheIsCurrent ==
    \A x \in DOMAIN prerequisite_cache :
        prerequisite_cache[x] = TransitivePrereqs(concepts, {x})

(***************************************************************************)
(* Properties of add_concepts                                              *)
(***************************************************************************)
BatchIds(batch) == {batch[i].id : i \in DOMAIN batch}

\* The first concept of the batch with the id.
FirstOf(batch, id) ==
    batch[CHOOSE i \in DOMAIN batch :
              batch[i].id = id /\ \A j \in 1 .. i - 1 : batch[j].id # id].value

RECURSIVE Observations(_)
Observations(arms) ==
    IF arms = <<>> THEN 0
    ELSE Head(arms).value[1] + Head(arms).value[2] - 20 + Observations(Tail(arms))

\* The arm of a strategy, (1, 1) for one the bandit does not hold.
ArmOrPrior(arms, strategy) ==
    IF \E i \in DOMAIN arms : arms[i].key = strategy
    THEN arms[CHOOSE i \in DOMAIN arms : arms[i].key = strategy].value
    ELSE <<10, 10>>

ArmKeys(arms) == {arms[i].key : i \in DOMAIN arms}

\* The step from arms to after is an update of strategy with score.
IsUpdateOf(arms, after, strategy, score) ==
    /\ ArmKeys(after) = ArmKeys(arms) \cup {strategy}
    /\ ArmOrPrior(after, strategy)
          = <<ArmOrPrior(arms, strategy)[1] + score,
              ArmOrPrior(arms, strategy)[2] + (10 - score)>>
    /\ \A i \in DOMAIN arms : arms[i].key # strategy => after[i] = arms[i]

\* C22: an update adds the score to the alpha of its arm and 1 - score to
\* its beta, from (1, 1) for an arm the bandit did not hold, and leaves the
\* other arms alone; so every arm has alpha >= 1 and beta >= 1, and
\* alpha + beta - 2 is a whole number of updates, the updates of all arms
\* adding up to the updates made.
C22_UpdateAddsScore ==
    /\ [](\A i \in DOMAIN engine.strategy_bandit.arms :
            LET arm == engine.strategy_bandit.arms[i].value
            IN  arm[1] >= 10 /\ arm[2] >= 10 /\ (arm[1] + arm[2] - 20) % 10 = 0)
    /\ [](Observations(engine.strategy_bandit.arms) = 10 * engine_steps)
    /\ [][rl_call'.op = "update_strategy" =>
            \E strategy \in ArmNames, score \in ArmScores :
                IsUpdateOf(engine.strategy_bandit.arms,
                           engine'.strategy_bandit.arms, strategy, score)]_vars

\* An arm the bandit did not hold has been created and updated twice.
C22_Witness ==
    /\ \E i \in DOMAIN engine.strategy_bandit.arms :
          /\ engine.strategy_bandit.arms[i].key = "custom"
          /\ engine.strategy_bandit.arms[i].value = <<13, 27>>
    /\ rl_call.op = "update_strategy"

QualifyingKeys(bandit) ==
    {bandit.arms[i].key :
        i \in {j \in DOMAIN bandit.arms :
                  bandit.arms[j].value[1] + bandit.arms[j].value[2] > 30}}

\* C23: the list returned holds only arms with alpha + beta > 3, is empty
\* when fewer than two arms have alpha + beta > 3, and otherwise holds such
\* an arm exactly when its expected value is below
\* max(0.15, mean - standard deviation).
C23_ExclusionRule ==
    rl_call.op = "get_exclusion_set" =>
        /\ Range(rl_call.ret) \subseteq QualifyingKeys(engine.strategy_bandit)
        /\ Cardinality(QualifyingKeys(engine.strategy_bandit)) < 2
              => rl_call.ret = <<>>
        /\ LET evs == QualifyingArms(engine.strategy_bandit.arms)
           IN  Len(evs) >= 2 =>
                 \A i \in DOMAIN evs :
                     evs[i].key \in Range(rl_call.ret)
                         <=> ThresholdSide(evs, evs[i]) = "below"

\* The part that holds: no arm above the threshold is in the list, every
\* arm below it is, and no arm with alpha + beta <= 3.
ExclusionUpToTies ==
    rl_call.op = "get_exclusion_set" =>
        /\ Range(rl_call.ret) \subseteq QualifyingKeys(engine.strategy_bandit)
        /\ Cardinality(QualifyingKeys(engine.strategy_bandit)) < 2
              => rl_call.ret = <<>>
        /\ LET evs == QualifyingArms(engine.strategy_bandit.arms)
           IN  Len(evs) >= 2 =>
                 \A i \in DOMAIN evs :
                     /\ ThresholdSide(evs, evs[i]) = "below"
                           => evs[i].key \in Range(rl_call.ret)
                     /\ ThresholdSide(evs, evs[i]) = "above"
                           => evs[i].key \notin Range(rl_call.ret)

\* C24: whatever updates came before, the list returned leaves out at least
\* one arm of the bandit.
C24_SomeArmRemains ==
    rl_call.op = "get_exclusion_set" =>
        \E i \in DOMAIN engine.strategy_bandit.arms :
            engine.strategy_bandit.arms[i].key \notin Range(rl_call.ret)

\* C25: the epsilon read on a bandit with n updates is
\* max(0.05, 0.20 - 0.15 * min(n / 200, 1)): it is 0.20 at n = 0, it lies in
\* [0.05, 0.20], it is 0.05 from n = 200 on, and it is not above the epsilon
\* of any smaller number of updates.
C25_EpsilonSchedule ==
    rl_call.op = "epsilon" =>
        LET n == rl_call.total_updates
        IN  /\ n = engine[rl_call.layer].total_updates
            /\ rl_call.ret = Max(50000, 200000 - (150000 * Min(n, 200)) \div 200)
            /\ n = 0 => rl_call.ret = 200000
            /\ 50000 <= rl_call.ret /\ rl_call.ret <= 200000
            /\ n >= 200 => rl_call.ret = 50000
            /\ \A m \in 0 .. n : Epsilon(m) >= rl_call.ret

C25_Witness ==
    /\ rl_call.op = "epsilon"
    /\ rl_call.layer = "scheduler_bandit"
    /\ rl_call.total_updates > 200
    /\ rl_call.ret = 50000

\* The candidates recorded for the context of the selection last made.
RecordedFor(call) ==
    Lookup(IF call.op = "select_difficulty"
           THEN engine.difficulty_bandit.difficulty_table
           ELSE engine.scheduler_bandit.profile_table, call.ctx)

\* Candidate i of actions has an average at least that of candidate j.
AverageAtLeast(actions, i, j) ==
    actions[i].value[1] * actions[j].value[2]
        >= actions[j].value[1] * actions[i].value[2]

\* C26: a selection that does not explore returns, for a context with
\* recorded candidates, the first of the candidates recorded for that
\* context whose total reward / count is greatest among them: the records of
\* the other contexts have no part in it.
C26_GreedyIsBestOfContext ==
    /\ rl_call.op \in {"select_difficulty", "select_sm2_profile"}
    /\ ~rl_call.explore
    /\ rl_call.known
    => LET actions == RecordedFor(rl_call)
       IN  \E i \in DOMAIN actions :
               /\ rl_call.ret = actions[i].key
               /\ \A j \in DOMAIN actions : AverageAtLeast(actions, i, j)
               /\ \A j \in 1 .. i - 1 : ~AverageAtLeast(actions, j, i)

\* A greedy selection among two candidates of different averages, made
\* while another context holds the other candidate at a greater average.
C26_Witness ==
    /\ rl_call.op = "select_difficulty"
    /\ ~rl_call.explore
    /\ rl_call.known
    /\ LET actions == RecordedFor(rl_call)
           table == engine.difficulty_bandit.difficulty_table
       IN  /\ Len(actions) = 2
           /\ ~AverageAtLeast(actions, 1, 2)
           /\ rl_call.ret = actions[2].key
           /\ \E c \in DOMAIN table :
                  /\ table[c].key # rl_call.ctx
                  /\ table[c].value[1].key = actions[1].key
                  /\ table[c].value[1].value[1] * actions[2].value[2]
                         > actions[2].value[1] * table[c].value[1].value[2]

\* C27: whatever was passed to the updates, select_difficulty returns one of
\* DIFFICULTY_LEVELS, select_threshold one of MASTERY_THRESHOLDS and
\* select_retest_multiplier one of RETEST_MULTIPLIERS, exploring or not.
C27_SelectionsAreCandidates ==
    /\ rl_call.op = "select_difficulty" => rl_call.ret \in Range(DIFFICULTY_LEVELS)
    /\ rl_call.op = "select_threshold" => rl_call.ret \in Range(MASTERY_THRESHOLDS)
    /\ rl_call.op = "select_retest_multiplier"
          => rl_call.ret \in Range(RETEST_MULTIPLIERS)

\* The part that holds: an exploring selection, and one for a context
\* without a record, returns a candidate of the list.
ExploringIsCandidate ==
    /\ rl_call.op \in {"select_difficulty", "select_threshold",
                       "select_retest_multiplier"}
    /\ rl_call.explore \/ ~rl_call.known
    => rl_call.ret \in
           Range(CASE rl_call.op = "select_difficulty" -> DIFFICULTY_LEVELS
                   [] rl_call.op = "select_threshold" -> MASTERY_THRESHOLDS
                   [] rl_call.op = "select_retest_multiplier" -> RETEST_MULTIPLIERS)

\* The bandit an update operation of the engine belongs to.
BanditOf(op) ==
    CASE op \in {"update_difficulty", "update_retest"} -> "difficulty_bandit"
      [] op = "update_engagement" -> "engagement_bandit"
      [] op = "update_scheduler" -> "scheduler_bandit"

\* The step is the update op of a bandit: the bandit's total_updates grows
\* by one, and the other layers of the engine, the review queue and the
\* concept store are left as they were.
CountsOnce(op) ==
    /\ engine_steps' = engine_steps + 1
    /\ rl_call'.op = op
    => /\ engine'[BanditOf(op)].total_updates
              = engine[BanditOf(op)].total_updates + 1
       /\ \A layer \in DOMAIN engine \ {BanditOf(op)} : engine'[layer] = engine[layer]
       /\ UNCHANGED en_frame

\* C28: every update of a bandit (DifficultyBandit.update and update_retest,
\* EngagementBandit.update, SchedulerBandit.update) adds exactly 1 to the
\* total_updates of that bandit and changes nothing of the other components.
C28_UpdatesCountOnce ==
    [][\A op \in {"update_difficulty", "update_retest", "update_engagement",
                  "update_scheduler"} : CountsOnce(op)]_vars

\* The part that holds: the three update methods count.
UpdateMethodsCountOnce ==
    [][\A op \in {"update_difficulty", "update_engagement", "update_scheduler"} :
           CountsOnce(op)]_vars

\* The sum of the counts of the first n candidates of a context.
RECURSIVE CountOfFirst(_, _)
CountOfFirst(actions, n) ==
    IF n = 0 THEN 0 ELSE actions[n].value[2] + CountOfFirst(actions, n - 1)

ContextCount(table, ctx) == CountOfFirst(Lookup(table, ctx), Len(Lookup(table, ctx)))

\* The sum of the counts of the first n contexts of a table.
RECURSIVE CountOfContexts(_, _)
CountOfContexts(table, n) ==
    IF n = 0 THEN 0
    ELSE CountOfFirst(table[n].value, Len(table[n].value)) + CountOfContexts(table, n - 1)

TableCount(table) == CountOfContexts(table, Len(table))

ContextKeys(table) == {table[i].key : i \in DOMAIN table}

QOf(q_table, state_key, action) ==
    IF KeyIndex(Lookup(q_table, state_key), action) = 0 THEN 0
    ELSE Lookup(Lookup(q_table, state_key), action)

QActionsOf(q_table, state_key) ==
    {Lookup(q_table, state_key)[i].key : i \in DOMAIN Lookup(q_table, state_key)}

\* The values stored for next_state_key when the update reads them: those
\* of the table, and the 0 that (state_key, action) is taken as if absent.
NextValues(q_table, state_key, action, next_state_key) ==
    {QOf(q_table, next_state_key, b) : b \in QActionsOf(q_table, next_state_key)}
        \cup (IF next_state_key = state_key
                   /\ action \notin QActionsOf(q_table, state_key)
              THEN {0} ELSE {})

\* The step from learner to after is update(state_key, action, reward,
\* next_state_key): Q(s, a) moves by alpha * (reward + gamma * M - Q(s, a)),
\* to the millionth, with M the greatest of NextValues or 0; the table gains
\* (s, a) and nothing else, every other value is kept, and total_updates
\* grows by 1.
IsQUpdate(learner, after, state_key, action, reward, next_state_key) ==
    LET old == QOf(learner.q_table, state_key, action)
        new == QOf(after.q_table, state_key, action)
        values == NextValues(learner.q_table, state_key, action, next_state_key)
        M == IF values = {} THEN 0
             ELSE CHOOSE v \in values : \A w \in values : w <= v
        move == learner.alpha * (reward * QUnit + (learner.gamma * M) \div 10 - 10 * old)
    IN  /\ 1000 * (new - old) <= move
        /\ move < 1000 * (new - old + 1)
        /\ ContextKeys(after.q_table) = ContextKeys(learner.q_table) \cup {state_key}
        /\ \A k \in ContextKeys(after.q_table) :
               /\ QActionsOf(after.q_table, k) =
                      QActionsOf(learner.q_table, k)
                          \cup (IF k = state_key THEN {action} ELSE {})
               /\ \A b \in QActionsOf(after.q_table, k) :
                      k # state_key \/ b # action
                          => QOf(after.q_table, k, b) = QOf(learner.q_table, k, b)
        /\ after.total_updates = learner.total_updates + 1
        /\ after.alpha = learner.alpha
        /\ after.gamma = learner.gamma
        /\ after.epsilon = learner.epsilon

Hyperparameters(learner) ==
    [alpha |-> learner.alpha, gamma |-> learner.gamma, epsilon |-> learner.epsilon]

\* C32: the Q-learner of the engine built for a learner without a stored
\* policy has the hyperparameters of the learner's number of concepts
\* mastered (fewer than 5: alpha 0.2, epsilon 0.3; fewer than 20: alpha 0.1,
\* epsilon 0.15; otherwise alpha 0.05, epsilon 0.05; gamma 0.9), and no
\* select, update or round trip changes alpha, gamma or epsilon afterwards.
C32_HyperparametersOfExperience ==
    /\ [](rl_call.op = "get_rl_engine" /\ ~rl_call.stored
            => Hyperparameters(engine.action_q)
                   = for_experience(rl_call.concepts_mastered))
    /\ [][rl_call'.op # "get_rl_engine"
            => Hyperparameters(engine'.action_q) = Hyperparameters(engine.action_q)]_vars

\* The part that holds: alpha, gamma and epsilon are those of construction
\* after every select, update and round trip.
HyperparametersKept ==
    [][rl_call'.op # "get_rl_engine"
          => Hyperparameters(engine'.action_q) = Hyperparameters(engine.action_q)]_vars

SelectionQueries ==
    {"select_strategy", "get_best_strategy", "get_exclusion_set",
     "select_difficulty", "select_threshold", "select_retest_multiplier",
     "select_next_action", "select_engagement_profile", "select_sm2_profile"}

C34_MasteredHasReviewItem ==
    \A lid \in LearnerIds : \A cid \in MasteryConcepts :
        StatusOf(learners[lid], cid) = "mastered"
            => QueueIndex(learners[lid].review_queue, cid) # 0

\* C35: schedule_review(learner, X, score) updates the item of X once,
\* creating it if absent; every other item of the queue stays where it was
\* with the same fields, and the queue holds one item per concept id.
C35_ReviewUpdatesOneItem ==
    [][reviews_done' = reviews_done + 1 =>
        LET X == rs_call'.item.concept_id
            old == QueueIndex(review_queue, X)
            new == review_queue'[QueueIndex(review_queue', X)]
        IN  /\ \A k \in DOMAIN review_queue :
                  review_queue[k].concept_id # X
                      => /\ k \in DOMAIN review_queue'
                         /\ review_queue'[k] = review_queue[k]
            /\ Len(review_queue') = Len(review_queue) + (IF old = 0 THEN 1 ELSE 0)
            /\ \A i, j \in DOMAIN review_queue' :
                  review_queue'[i].concept_id = review_queue'[j].concept_id => i = j
            /\ QueueIndex(review_queue', X) # 0
            /\ new.last_score = rs_call'.score
            /\ new.repetition_count =
                  IF Recalled(rs_call'.score)
                  THEN (IF old = 0 THEN 0 ELSE review_queue[old].repetition_count) + 1
                  ELSE 0]_vars

\* The item of a concept has been updated a second time while the queue
\* holds the item of another concept.
C35_Witness ==
    /\ rs_call.op = "schedule_review"
    /\ rs_call.prior.repetition_count = 1
    /\ rs_call.item.repetition_count = 2
    /\ Len(review_queue) = 2

\* C36: after every schedule_review the interval of the item is strictly
\* positive and its next review is strictly later than the time of the call,
\* for the item in memory and for the rounded item that is persisted.
C36_IntervalPositive ==
    rs_call.op = "schedule_review" =>
        LET saved == review_queue[QueueIndex(review_queue, rs_call.item.concept_id)]
        IN  /\ rs_call.item.interval_days > 0
            /\ rs_call.item.next_review > now
            /\ saved.interval_days > 0
            /\ saved.next_review > now

\* What holds of the call on an item as __init__ made it or as an earlier
\* call left it in memory: the interval in memory is positive as long as the
\* persisted interval it started from was.
IntervalPositiveFromPositive ==
    (rs_call.op = "schedule_review" /\ rs_call.prior.interval_days > 0)
        => /\ rs_call.item.interval_days > 0
           /\ rs_call.item.next_review > now

\* C37: when schedule_review creates the item of a concept, the easiness
\* factor of that first review is computed from the initial easiness factor
\* of the profile selected for the call.
C37_FirstReviewFromProfile ==
    [][(/\ reviews_done' = reviews_done + 1
        /\ QueueIndex(review_queue, rs_call'.item.concept_id) = 0)
        => rs_call'.item.easiness_factor =
               EFUpdate(MilliEF * SM2_PROFILES[rs_call'.profile].init_ef,
                        SM2_PROFILES[rs_call'.profile], rs_call'.score)]_vars

\* What the code does: the first review starts from the 2.5 of
\* ReviewItem.__init__ under every profile.
FirstReviewFromDefault ==
    [][(/\ reviews_done' = reviews_done + 1
        /\ QueueIndex(review_queue, rs_call'.item.concept_id) = 0)
        => rs_call'.item.easiness_factor =
               EFUpdate((5 * EFUnit) \div 2, SM2_PROFILES[rs_call'.profile],
                        rs_call'.score)]_vars

\* C38: on an acyclic graph a concept select_next_concept returns is not
\* mastered and every one of its direct prerequisites is mastered in the
\* learner's record, on the main branch and on the fallback branch.
C38_NextConceptIsReady ==
    (/\ kg_call.op = "select_next_concept"
     /\ kg_call.branch \in {"main", "fallback"}
     /\ AcyclicGraph(concepts))
        => /\ kg_call.states[kg_call.ret] # "mastered"
           /\ \A p \in DirectPrereqs(concepts, kg_call.ret) :
                 kg_call.states[p] = "mastered"

\* The fallback branch has returned a concept that has prerequisites.
C38_Witness ==
    /\ kg_call.op = "select_next_concept"
    /\ kg_call.branch = "fallback"
    /\ AcyclicGraph(concepts)
    /\ get_prerequisites(concepts, kg_call.ret) # <<>>

\* C39: select_next_concept returns None only when every target concept and
\* every transitive prerequisite of a target is mastered.
C39_NoneOnlyWhenAllMastered ==
    (/\ kg_call.op = "select_next_concept"
     /\ kg_call.branch \in {"no targets", "empty path"})
        => \A c \in kg_call.targets \cup TransitivePrereqs(concepts, kg_call.targets) :
              kg_call.states[c] = "mastered"

\* On an acyclic graph None is returned only when everything required is
\* mastered.
NoneOnlyWhenAllMasteredAcyclic ==
    (/\ kg_call.op = "select_next_concept"
     /\ kg_call.branch \in {"no targets", "empty path"}
     /\ AcyclicGraph(concepts))
        => \A c \in kg_call.targets \cup TransitivePrereqs(concepts, kg_call.targets) :
              kg_call.states[c] = "mastered"

\* C40: the policy dict an engine was read from or written to shares nothing
\* with the engine: update_strategy, update_difficulty and update_action on
\* the engine leave the dict as it was.
C40_UpdatesLeaveThePolicy ==
    [][(/\ engine_steps' = engine_steps + 1
        /\ rl_call'.op \in {"update_strategy", "update_difficulty", "update_action"})
        => rl_policy' = rl_policy]_vars

\* The arms are copied by to_dict and from_dict: update_strategy leaves the
\* policy dict as it was.
StrategyUpdateLeavesThePolicy ==
    [][(engine_steps' = engine_steps + 1 /\ rl_call'.op = "update_strategy")
        => rl_policy' = rl_policy]_vars

====
